---------------------------- MODULE Spec2Model ----------------------------
(***************************************************************************)
(* A model of the lunar compiler (aag2807/lunar): the source-map builder   *)
(* and its VLQ codec, the Pratt expression parser and the code generator,  *)
(* the constant-folding optimizer, the type checker's assignability       *)
(* relation and statement checks, and the optimizer and the generator on   *)
(* statement lists.                                                        *)
(*                                                                         *)
(* Text is modelled as it is in the program: a string is a sequence of     *)
(* characters (ASCII codes) where the code works on characters (VLQ, the   *)
(* mappings string), and a sequence of tokens where the code works on      *)
(* tokens (parser, generator).                                             *)
(***************************************************************************)
EXTENDS Integers, Sequences, FiniteSets, TLC

(***************************************************************************)
(* Bounds of the model.                                                    *)
(***************************************************************************)
MaxVLQValue == 600
MaxTrailing == 2
MaxMappings == 3
\* Key-value pairs in a table literal.
MaxPairs == 2
\* Pieces that make up an input of the lexer.
MaxPieces == 3
\* Calls of NextToken beyond one per input byte plus one.
MaxCallsAfterEOF == 2
\* Pieces of tokens that follow the colon of a declaration handed to the parser.
MaxTokenPieces == 3

VARIABLES
    \* --- sourcemap VLQ codec under test (vlq.go) ---
    vlqPc,          \* "start" | "encoded" | "decoded"
    vlqInput,       \* the integer handed to EncodeVLQ
    vlqTrailing,    \* characters that follow the encoded value in the input of DecodeVLQ
    vlqEncoded,     \* result of EncodeVLQ
    vlqDecoded,     \* result of DecodeVLQ: <<value, charsRead>>
    \* --- sourcemap.Builder ---
    mappings,       \* Builder.mappings
    names,          \* Builder.names (name -> index)
    namesList,      \* Builder.namesList
    sourceMap,      \* result of Build(), or NoSourceMap before it is called
    \* --- codegen.Optimizer followed by the generator ---
    optPc,          \* "start" | "optimized" | "generated"
    optExpr,        \* the expression as parsed
    optResult,      \* the expression optimizeExpression returns (Panic if it aborts)
    optEmitted,     \* the text generateExpression emits for optResult
    \* --- compile: lexer, parser, generator ---
    rtPc,           \* "source" | "rejected" | "parsed" | "generated" | "regenerated" | "reparsed"
    rtSource,       \* the source text, a sequence of lexemes
    rtAst,          \* the expression the parser returns for rtSource
    rtEmitted,      \* the text of the generator's first run on rtAst
    rtEmitted2,     \* the text of the generator's second run on rtAst
    rtAst2,         \* the expression the parser returns for rtEmitted
    \* --- types.Check ---
    ckPc,           \* "idle" | "register" | "check" | "done"
    statements,     \* the program handed to Check
    ckIndex,        \* the statement the running loop of Check is at
    checker,        \* the Checker
    \* --- codegen.GenerateWithOptions on a statement list ---
    pgPc,           \* "idle" | "parsed" | "optimized" | "generated"
    pgStatements,   \* the statements as parsed
    pgOptimize,     \* the optimize argument
    pgOptimized,    \* the statements handed to the generator
    pgEmitted,      \* the text the generator returns, a sequence of lines
    \* --- lexer.Lexer and its caller ---
    lxPc,           \* "idle" | "lexing"
    lexer,          \* the Lexer
    lxTokens,       \* the tokens that the calls of NextToken returned
    lxStarts,       \* for each of them, the position of its first byte
    \* --- parser.Parse on a token sequence ---
    psPc,           \* "idle" | "ready" | "returned" | "aborted"
    psTokens,       \* the tokens the lexer hands to the parser
    psStatements,   \* the statements Parse returns
    psErrors        \* the number of diagnostics the parser collected

vlqVars == <<vlqPc, vlqInput, vlqTrailing, vlqEncoded, vlqDecoded>>
smVars  == <<mappings, names, namesList, sourceMap>>
optVars == <<optPc, optExpr, optResult, optEmitted>>
rtVars  == <<rtPc, rtSource, rtAst, rtEmitted, rtEmitted2, rtAst2>>
ckVars  == <<ckPc, statements, ckIndex, checker>>
pgVars  == <<pgPc, pgStatements, pgOptimize, pgOptimized, pgEmitted>>
lxVars  == <<lxPc, lexer, lxTokens, lxStarts>>
psVars  == <<psPc, psTokens, psStatements, psErrors>>
vars    == <<vlqPc, vlqInput, vlqTrailing, vlqEncoded, vlqDecoded,
             mappings, names, namesList, sourceMap,
             optPc, optExpr, optResult, optEmitted,
             rtPc, rtSource, rtAst, rtEmitted, rtEmitted2, rtAst2,
             ckPc, statements, ckIndex, checker,
             pgPc, pgStatements, pgOptimize, pgOptimized, pgEmitted,
             lxPc, lexer, lxTokens, lxStarts,
             psPc, psTokens, psStatements, psErrors>>
\* What the actions of one component leave alone: the other components.
vlqOthers == <<smVars, optVars, rtVars, ckVars, pgVars, lxVars, psVars>>
smOthers  == <<vlqVars, optVars, rtVars, ckVars, pgVars, lxVars, psVars>>
optOthers == <<vlqVars, smVars, rtVars, ckVars, pgVars, lxVars, psVars>>
rtOthers  == <<vlqVars, smVars, optVars, ckVars, pgVars, lxVars, psVars>>
ckOthers  == <<vlqVars, smVars, optVars, rtVars, pgVars, lxVars, psVars>>
pgOthers  == <<vlqVars, smVars, optVars, rtVars, ckVars, lxVars, psVars>>
lxOthers  == <<vlqVars, smVars, optVars, rtVars, ckVars, pgVars, psVars>>
psOthers  == <<vlqVars, smVars, optVars, rtVars, ckVars, pgVars, lxVars>>

(***************************************************************************)
(* Characters.                                                             *)
(***************************************************************************)
CharComma     == 44
CharSemicolon == 59
CharPlus      == 43
CharSlash     == 47
CharUpperA    == 65
CharUpperZ    == 90
CharLowerA    == 97
CharLowerZ    == 122
CharZero      == 48
CharNine      == 57

RECURSIVE Pow2(_)
Pow2(n) == IF n = 0 THEN 1 ELSE 2 * Pow2(n - 1)

(***************************************************************************)
(* vlq.go                                                                  *)
(***************************************************************************)
vlqBaseShift       == 5
vlqBase            == Pow2(vlqBaseShift)
vlqBaseMask        == vlqBase - 1
vlqContinuationBit == vlqBase

\* "ABCDEFGHIJKLMNOPQRSTUVWXYZabcdefghijklmnopqrstuvwxyz0123456789+/"
base64Chars ==
    [i \in 1..64 |->
        IF i <= 26 THEN CharUpperA + (i - 1)
        ELSE IF i <= 52 THEN CharLowerA + (i - 27)
        ELSE IF i <= 62 THEN CharZero + (i - 53)
        ELSE IF i = 63 THEN CharPlus
        ELSE CharSlash]

\* The loop of EncodeVLQ: one base64 character per 5-bit group, low group first.
RECURSIVE EncodeVLQLoop(_, _)
EncodeVLQLoop(vlq, result) ==
    LET digit0 == vlq % vlqBase                 \* vlq & vlqBaseMask
        rest   == vlq \div vlqBase              \* vlq >>= vlqBaseShift
        digit  == IF rest > 0 THEN digit0 + vlqContinuationBit ELSE digit0
        out    == Append(result, base64Chars[digit + 1])
    IN  IF rest = 0 THEN out ELSE EncodeVLQLoop(rest, out)

EncodeVLQ(value) ==
    LET vlq == IF value < 0 THEN ((-value) * 2) + 1 ELSE value * 2
    IN  EncodeVLQLoop(vlq, <<>>)

\* The digit value DecodeVLQ finds for a character (0 for any other character).
VLQDigit(char) ==
    IF char >= CharUpperA /\ char <= CharUpperZ THEN char - CharUpperA
    ELSE IF char >= CharLowerA /\ char <= CharLowerZ THEN (char - CharLowerA) + 26
    ELSE IF char >= CharZero /\ char <= CharNine THEN (char - CharZero) + 52
    ELSE IF char = CharPlus THEN 62
    ELSE IF char = CharSlash THEN 63
    ELSE 0

\* The loop of DecodeVLQ from index i (1-based): <<result, charsRead>> before the sign.
RECURSIVE DecodeVLQLoop(_, _, _, _, _)
DecodeVLQLoop(encoded, i, result, shift, charsRead) ==
    IF i > Len(encoded) THEN <<result, charsRead>>
    ELSE
        LET digit0       == VLQDigit(encoded[i])
            continuation == (digit0 \div vlqContinuationBit) % 2 = 1
            digit        == digit0 % vlqBase
            result1      == result + digit * Pow2(shift)
        IN  IF ~continuation THEN <<result1, charsRead + 1>>
            ELSE DecodeVLQLoop(encoded, i + 1, result1, shift + vlqBaseShift, charsRead + 1)

DecodeVLQ_NoSign(encoded) ==
    LET r == DecodeVLQLoop(encoded, 1, 0, 0, 0)
    IN  <<r[1] \div 2, r[2]>>

DecodeVLQ(encoded) ==
    LET r == DecodeVLQLoop(encoded, 1, 0, 0, 0)
    IN  IF r[1] % 2 = 1 THEN <<-(r[1] \div 2), r[2]>> ELSE <<r[1] \div 2, r[2]>>

(***************************************************************************)
(* The VLQ codec driven as in TestVLQRoundTrip / TestDecodeVLQWithTrailing *)
(* Chars: encode a value, then decode the encoding followed by more text.  *)
(***************************************************************************)
VLQValues     == (-MaxVLQValue)..MaxVLQValue
\* ',' ';' 'A' (digit 0) 'g' (digit 32: continuation bit set) '/' (digit 63)
TrailingChars == {CharComma, CharSemicolon, CharUpperA, 103, CharSlash}
RECURSIVE SeqsUpTo(_, _)
SeqsUpTo(S, n) ==
    IF n = 0 THEN {<<>>}
    ELSE LET shorter == SeqsUpTo(S, n - 1)
         IN  shorter \cup {Append(s, x) : s \in {t \in shorter : Len(t) = n - 1}, x \in S}

NoDecoded == <<0, 0>>

VlqIdle ==
    /\ vlqPc = "idle"
    /\ vlqInput = 0
    /\ vlqTrailing = <<>>
    /\ vlqEncoded = <<>>
    /\ vlqDecoded = NoDecoded

VlqInit ==
    /\ vlqPc = "start"
    /\ vlqInput \in VLQValues
    /\ vlqTrailing \in SeqsUpTo(TrailingChars, MaxTrailing)
    /\ vlqEncoded = <<>>
    /\ vlqDecoded = NoDecoded

VlqEncode ==
    /\ vlqPc = "start"
    /\ vlqEncoded' = EncodeVLQ(vlqInput)
    /\ vlqPc' = "encoded"
    /\ UNCHANGED <<vlqInput, vlqTrailing, vlqDecoded>>
    /\ UNCHANGED vlqOthers

VlqDecode ==
    /\ vlqPc = "encoded"
    /\ vlqDecoded' = DecodeVLQ(vlqEncoded \o vlqTrailing)
    /\ vlqPc' = "decoded"
    /\ UNCHANGED <<vlqInput, vlqTrailing, vlqEncoded>>
    /\ UNCHANGED vlqOthers

(***************************************************************************)
(* sourcemap.go: Builder                                                   *)
(***************************************************************************)
sourceFile    == "test.lunar"
generatedFile == "test.lua"
NoSourceMap   == [Version |-> 0, File |-> "", Sources |-> <<>>, Names |-> <<>>, Mappings |-> <<>>]
EmptyNames    == [n \in {} |-> 0]

\* NewBuilder
SmIdle ==
    /\ mappings = <<>>
    /\ names = EmptyNames
    /\ namesList = <<>>
    /\ sourceMap = NoSourceMap

SmInit == SmIdle

\* st = [result, prevGenLine, prevGenCol, prevSrcLine, prevSrcCol, prevNameIndex]
RECURSIVE AdvanceGenLine_NoColumnReset(_, _, _)
AdvanceGenLine_NoColumnReset(st, m, i) ==
    IF st.prevGenLine < m.GeneratedLine
    THEN AdvanceGenLine_NoColumnReset(
            [st EXCEPT !.result = IF st.prevGenLine > 0 \/ i > 0
                                  THEN Append(st.result, CharSemicolon) ELSE st.result,
                       !.prevGenLine = st.prevGenLine + 1],
            m, i)
    ELSE st

\* The inner loop of encodeMappings: one ';' per generated line passed.
RECURSIVE AdvanceGenLine(_, _, _)
AdvanceGenLine(st, m, i) ==
    IF st.prevGenLine < m.GeneratedLine
    THEN AdvanceGenLine(
            [st EXCEPT !.result = IF st.prevGenLine > 0 \/ i > 0
                                  THEN Append(st.result, CharSemicolon) ELSE st.result,
                       !.prevGenLine = st.prevGenLine + 1,
                       !.prevGenCol = 0],
            m, i)
    ELSE st

\* The body of the loop of encodeMappings for mapping m at (0-based) index i.
EncodeSegment(st, m, i, nameIndexOf) ==
    LET s1 == AdvanceGenLine(st, m, i)
        s2 == IF i > 0 /\ m.GeneratedLine = s1.prevGenLine
              THEN [s1 EXCEPT !.result = Append(s1.result, CharComma)] ELSE s1
        s3 == [s2 EXCEPT !.result = s2.result
                            \o EncodeVLQ(m.GeneratedColumn - s2.prevGenCol)
                            \o EncodeVLQ(0)
                            \o EncodeVLQ(m.SourceLine - 1 - s2.prevSrcLine)
                            \o EncodeVLQ(m.SourceColumn - s2.prevSrcCol),
                         !.prevGenCol = m.GeneratedColumn,
                         !.prevSrcLine = m.SourceLine - 1,
                         !.prevSrcCol = m.SourceColumn]
    IN  IF m.Name # ""
        THEN [s3 EXCEPT !.result = s3.result \o EncodeVLQ(nameIndexOf[m.Name] - s3.prevNameIndex),
                        !.prevNameIndex = nameIndexOf[m.Name]]
        ELSE s3

RECURSIVE EncodeMappingsFrom(_, _, _, _)
EncodeMappingsFrom(ms, nameIndexOf, k, st) ==
    IF k > Len(ms) THEN st.result
    ELSE EncodeMappingsFrom(ms, nameIndexOf, k + 1, EncodeSegment(st, ms[k], k - 1, nameIndexOf))

encodeMappings(ms, nameIndexOf) ==
    IF Len(ms) = 0 THEN <<>>
    ELSE EncodeMappingsFrom(ms, nameIndexOf, 1,
            [result |-> <<>>, prevGenLine |-> 0, prevGenCol |-> 0,
             prevSrcLine |-> 0, prevSrcCol |-> 0, prevNameIndex |-> 0])

\* The arguments the builder is called with.  The generator passes its cursor
\* (currentLine starts at 1 and never decreases; currentColumn restarts at 0 on a
\* new line), and a token's 1-based line and 0-based column.
GenLines   == {1, 2, 3}
GenColumns == {0, 10}
SrcPos     == {<<1, 0>>, <<1, 8>>, <<2, 0>>}
NameArgs   == {"", "foo"}

NonDecreasing(ms) ==
    \A k \in 1..(Len(ms) - 1) :
        \/ ms[k].GeneratedLine < ms[k + 1].GeneratedLine
        \/ /\ ms[k].GeneratedLine = ms[k + 1].GeneratedLine
           /\ ms[k].GeneratedColumn <= ms[k + 1].GeneratedColumn

AddMapping(genLine, genCol, srcLine, srcCol, name) ==
    /\ mappings' = Append(mappings,
            [GeneratedLine |-> genLine, GeneratedColumn |-> genCol,
             SourceLine |-> srcLine, SourceColumn |-> srcCol, Name |-> name])
    /\ IF name # "" /\ name \notin DOMAIN names
       THEN /\ names' = (name :> Len(namesList)) @@ names
            /\ namesList' = Append(namesList, name)
       ELSE UNCHANGED <<names, namesList>>
    /\ UNCHANGED sourceMap

SmAddMapping ==
    /\ sourceMap = NoSourceMap
    /\ Len(mappings) < MaxMappings
    /\ \E genLine \in GenLines, genCol \in GenColumns, src \in SrcPos, name \in NameArgs :
          /\ Len(mappings) > 0 =>
                \/ mappings[Len(mappings)].GeneratedLine < genLine
                \/ /\ mappings[Len(mappings)].GeneratedLine = genLine
                   /\ mappings[Len(mappings)].GeneratedColumn <= genCol
          /\ AddMapping(genLine, genCol, src[1], src[2], name)
    /\ UNCHANGED smOthers

Build ==
    /\ sourceMap = NoSourceMap
    /\ sourceMap' = [Version |-> 3, File |-> generatedFile, Sources |-> <<sourceFile>>,
                     Names |-> namesList, Mappings |-> encodeMappings(mappings, names)]
    /\ UNCHANGED <<mappings, names, namesList>>
    /\ UNCHANGED smOthers


(***************************************************************************)
(* Numbers.  A float64 is modelled by the rational it holds, <<n, d>> in   *)
(* lowest terms with d > 0; the values of the model are small enough for   *)
(* the compiler's and the target dialect's arithmetic to agree on them.    *)
(***************************************************************************)
RECURSIVE GCD(_, _)
GCD(a, b) == IF b = 0 THEN a ELSE GCD(b, a % b)
Abs(x) == IF x < 0 THEN -x ELSE x
Rat(n, d) ==
    LET g == GCD(Abs(n), Abs(d))
        s == IF d < 0 THEN -1 ELSE 1
    IN  <<(s * n) \div g, (s * d) \div g>>
RInt(i)    == <<i, 1>>
Zero       == RInt(0)
RAdd(a, b) == Rat(a[1] * b[2] + b[1] * a[2], a[2] * b[2])
RSub(a, b) == Rat(a[1] * b[2] - b[1] * a[2], a[2] * b[2])
RMul(a, b) == Rat(a[1] * b[1], a[2] * b[2])
RDiv(a, b) == Rat(a[1] * b[2], a[2] * b[1])
RNeg(a)    == <<-a[1], a[2]>>
RLess(a, b) == a[1] * b[2] < b[1] * a[2]
RLeq(a, b)  == a[1] * b[2] <= b[1] * a[2]
RFloor(a)  == IF a[1] >= 0 THEN a[1] \div a[2] ELSE -(((-a[1]) + a[2] - 1) \div a[2])
\* Go's int(f): truncation toward zero.
RTrunc(a)  == IF a[1] >= 0 THEN a[1] \div a[2] ELSE -((-a[1]) \div a[2])
\* Go's a % b on ints: the remainder has the sign of the dividend.
GoRem(a, b) == IF a >= 0 THEN a % Abs(b) ELSE -((-a) % Abs(b))

(***************************************************************************)
(* Text and tokens.  A lexeme is a numeral (which denotes a number), a     *)
(* quoted string, or a word (identifier, keyword, operator, bracket).      *)
(* strconv.ParseFloat and the target dialect read a numeral as the number  *)
(* it denotes; fmt's %d and %g write the numeral of a number.              *)
(***************************************************************************)
NumeralText(q) == [kind |-> "numeral", chars |-> "", denotes |-> q, raw |-> <<>>]
WordText(w)    == [kind |-> "word", chars |-> w, denotes |-> Zero, raw |-> <<>>]
\* A quoted string; raw is the sequence of characters between the quotes.
StringText(v)  == [kind |-> "string", chars |-> "", denotes |-> Zero, raw |-> v]
NoText         == WordText("")

\* lexer.Token{Type, Literal}
Tok(type, literal) == [Type |-> type, Literal |-> literal]
NoToken == Tok("", NoText)

\* strconv.ParseFloat(text, 64) with the error dropped: 0 for text that is no numeral.
ParseFloat(text) == IF text.kind = "numeral" THEN text.denotes ELSE Zero
ParseFloatFails(text) == text.kind # "numeral"

(***************************************************************************)
(* ast: expression nodes.                                                  *)
(***************************************************************************)
NilExpr == [node |-> "nil"]
Identifier(tok)            == [node |-> "Identifier", Token |-> tok, Name |-> tok.Literal.chars]
NumberLiteral(tok, value)  == [node |-> "NumberLiteral", Token |-> tok, Value |-> value]
StringLiteral(tok, value)  == [node |-> "StringLiteral", Token |-> tok, Str |-> value]
BooleanLiteral(tok, value) == [node |-> "BooleanLiteral", Token |-> tok, Bool |-> value]
NilLiteral(tok)            == [node |-> "NilLiteral", Token |-> tok]
PrefixExpression(tok, op, right) ==
    [node |-> "PrefixExpression", Token |-> tok, Operator |-> op, Right |-> right]
InfixExpression(tok, left, op, right) ==
    [node |-> "InfixExpression", Token |-> tok, Left |-> left, Operator |-> op, Right |-> right]
CallExpression(tok, function, arguments) ==
    [node |-> "CallExpression", Token |-> tok, Function |-> function, Arguments |-> arguments]
DotExpression(tok, left, right) ==
    [node |-> "DotExpression", Token |-> tok, Left |-> left, Right |-> right]
IndexExpression(tok, left, index) ==
    [node |-> "IndexExpression", Token |-> tok, Left |-> left, Index |-> index]
\* Pairs is a Go map keyed by the key node's address: here the pairs in the order
\* they were parsed, <<key, value>> each; the map's iteration order is not part of it.
TableLiteral(tok, pairs, values) ==
    [node |-> "TableLiteral", Token |-> tok, Pairs |-> pairs, Values |-> values]

IsNode(e, kind) == e.node = kind

(***************************************************************************)
(* optimizer.go                                                            *)
(***************************************************************************)
\* The optimizer aborted (a Go run-time panic).
Panic == [node |-> "panic"]

\* formatNumber: "%d" of int(n) when n is integral, "%g" otherwise.
formatNumber(n) == NumeralText(n)

\* The loop of the "^" case: result *= leftVal, int(rightVal) times.
RECURSIVE PowLoop(_, _, _)
PowLoop(result, leftVal, times) ==
    IF times <= 0 THEN result ELSE PowLoop(RMul(result, leftVal), leftVal, times - 1)

ArithmeticOps == {"+", "-", "*", "/", "%", "^"}
ComparisonOps == {"==", "!=", "<", "<=", ">", ">="}

foldNumericOperation(left, right, operator, token) ==
    LET leftVal  == ParseFloat(left.Token.Literal)
        rightVal == ParseFloat(right.Token.Literal)
        unfolded == InfixExpression(token, left, operator, right)
        number(result) == NumberLiteral(Tok("", formatNumber(result)), result)
    IN  CASE operator = "+" -> number(RAdd(leftVal, rightVal))
          [] operator = "-" -> number(RSub(leftVal, rightVal))
          [] operator = "*" -> number(RMul(leftVal, rightVal))
          [] operator = "/" -> IF rightVal = Zero THEN unfolded
                               ELSE number(RDiv(leftVal, rightVal))
          [] operator = "%" -> IF rightVal = Zero THEN unfolded
                               \* int(leftVal) % int(rightVal): integer division by zero
                               ELSE IF RTrunc(rightVal) = 0 THEN Panic
                               ELSE number(RInt(GoRem(RTrunc(leftVal), RTrunc(rightVal))))
          [] operator = "^" -> number(PowLoop(RInt(1), leftVal, RTrunc(rightVal)))
          [] operator = "==" -> BooleanLiteral(token, leftVal = rightVal)
          [] operator = "!=" -> BooleanLiteral(token, leftVal # rightVal)
          [] operator = "<"  -> BooleanLiteral(token, RLess(leftVal, rightVal))
          [] operator = "<=" -> BooleanLiteral(token, RLeq(leftVal, rightVal))
          [] operator = ">"  -> BooleanLiteral(token, RLess(rightVal, leftVal))
          [] operator = ">=" -> BooleanLiteral(token, RLeq(rightVal, leftVal))
          [] OTHER -> unfolded

\* The folding rules of optimizeInfixExpression, on a node whose operands are optimized.
foldInfix(node) ==
    LET left  == node.Left
        right == node.Right
        op    == node.Operator
        isAnd == op = "&&" \/ op = "and"
        isOr  == op = "||" \/ op = "or"
    IN  IF left = Panic \/ right = Panic THEN Panic
        ELSE IF IsNode(left, "NumberLiteral") /\ IsNode(right, "NumberLiteral")
        THEN foldNumericOperation(left, right, op, node.Token)
        ELSE IF IsNode(left, "StringLiteral") /\ IsNode(right, "StringLiteral") /\ op = ".."
        THEN StringLiteral(node.Token, left.Str \o right.Str)
        ELSE IF isAnd /\ IsNode(left, "BooleanLiteral")
        THEN (IF ~left.Bool THEN BooleanLiteral(node.Token, FALSE) ELSE right)
        ELSE IF isAnd /\ IsNode(right, "BooleanLiteral")
        THEN (IF ~right.Bool THEN BooleanLiteral(node.Token, FALSE) ELSE left)
        ELSE IF isOr /\ IsNode(left, "BooleanLiteral")
        THEN (IF left.Bool THEN BooleanLiteral(node.Token, TRUE) ELSE right)
        ELSE IF isOr /\ IsNode(right, "BooleanLiteral")
        THEN (IF right.Bool THEN BooleanLiteral(node.Token, TRUE) ELSE left)
        ELSE node

\* The folding rules of optimizePrefixExpression, on a node whose operand is optimized.
foldPrefix(node) ==
    LET right == node.Right
    IN  IF right = Panic THEN Panic
        ELSE IF (node.Operator = "!" \/ node.Operator = "not") /\ IsNode(right, "BooleanLiteral")
        THEN BooleanLiteral(node.Token, ~right.Bool)
        ELSE IF node.Operator = "-" /\ IsNode(right, "NumberLiteral")
        THEN NumberLiteral(node.Token, RNeg(right.Value))
        ELSE node

RECURSIVE optimizeExpression(_)
optimizeArguments(args) ==
    LET opt == [i \in 1..Len(args) |-> optimizeExpression(args[i])]
    IN  opt

optimizeInfixExpression(node) ==
    foldInfix([node EXCEPT !.Left = optimizeExpression(node.Left),
                           !.Right = optimizeExpression(node.Right)])

optimizePrefixExpression(node) ==
    foldPrefix([node EXCEPT !.Right = optimizeExpression(node.Right)])

optimizeExpression(expr) ==
    CASE IsNode(expr, "InfixExpression")  -> optimizeInfixExpression(expr)
      [] IsNode(expr, "PrefixExpression") -> optimizePrefixExpression(expr)
      [] IsNode(expr, "CallExpression") ->
            LET args == optimizeArguments(expr.Arguments)
            IN  IF \E i \in 1..Len(args) : args[i] = Panic THEN Panic
                ELSE [expr EXCEPT !.Arguments = args]
      [] OTHER -> expr

(***************************************************************************)
(* generator.go: expressions.  The emitted text is the sequence of its     *)
(* lexemes; the blanks between them carry nothing.  A generator g holds    *)
(* the set of class names and, for this run, the order in which the Go     *)
(* runtime iterates a map of n entries (g.order[n], a permutation of 1..n).*)
(***************************************************************************)
W(w) == <<WordText(w)>>

RECURSIVE JoinComma(_)
\* strings.Join(parts, ", ")
JoinComma(parts) ==
    IF Len(parts) = 0 THEN <<>>
    ELSE IF Len(parts) = 1 THEN parts[1]
    ELSE parts[1] \o W(",") \o JoinComma(Tail(parts))

needsParentheses(expr) ==
    IsNode(expr, "InfixExpression") \/ IsNode(expr, "PrefixExpression")

getOperatorPrecedence(op) ==
    CASE op \in {"or", "||"} -> 1
      [] op \in {"and", "&&"} -> 2
      [] op \in {"<", ">", "<=", ">=", "~=", "!=", "=="} -> 3
      [] op = ".." -> 4
      [] op \in {"+", "-"} -> 5
      [] op \in {"*", "/", "%"} -> 6
      [] op \in {"not", "!", "unary-"} -> 7
      [] op = "^" -> 8
      [] OTHER -> 0

needsParensInInfix(expr, parentOp, isLeft) ==
    IF ~IsNode(expr, "InfixExpression") THEN FALSE
    ELSE LET parentPrec == getOperatorPrecedence(parentOp)
             childPrec  == getOperatorPrecedence(expr.Operator)
         IN  \/ childPrec < parentPrec
             \/ childPrec = parentPrec /\ ~isLeft /\ parentOp # "^"

\* The operator as the target dialect spells it.
LuaOperator(operator) ==
    CASE operator = "!=" -> "~="
      [] operator = "&&" -> "and"
      [] operator = "||" -> "or"
      [] OTHER -> operator

Parenthesized(text, needed) == IF needed THEN W("(") \o text \o W(")") ELSE text

RECURSIVE generateExpression(_, _)
generateTableLiteral(g, node) ==
    LET values == [i \in 1..Len(node.Values) |-> generateExpression(g, node.Values[i])]
        order  == g.order[Len(node.Pairs)]
        pairs  == [i \in 1..Len(node.Pairs) |->
                      W("[") \o generateExpression(g, node.Pairs[order[i]][1])
                             \o W("]") \o W("=")
                             \o generateExpression(g, node.Pairs[order[i]][2])]
    IN  W("{") \o JoinComma(values)
               \o (IF Len(node.Pairs) > 0 /\ Len(node.Values) > 0 THEN W(",") ELSE <<>>)
               \o JoinComma(pairs) \o W("}")

generatePrefixExpression(g, node) ==
    LET operator == IF node.Operator = "!" THEN "not" ELSE node.Operator
        right    == generateExpression(g, node.Right)
    IN  W(operator) \o Parenthesized(right, needsParentheses(node.Right))

generateInfixExpression(g, node) ==
    LET operator == LuaOperator(node.Operator)
        left     == generateExpression(g, node.Left)
        right    == generateExpression(g, node.Right)
    IN  Parenthesized(left, needsParensInInfix(node.Left, operator, TRUE))
          \o W(operator)
          \o Parenthesized(right, needsParensInInfix(node.Right, operator, FALSE))

generateCallExpression(g, node) ==
    LET function == generateExpression(g, node.Function)
        isClass  == IsNode(node.Function, "Identifier") /\ node.Function.Name \in g.classes
        args     == [i \in 1..Len(node.Arguments) |-> generateExpression(g, node.Arguments[i])]
    IN  function \o (IF isClass THEN W(".") \o W("new") ELSE <<>>)
                 \o W("(") \o JoinComma(args) \o W(")")

generateDotExpression(g, node) ==
    generateExpression(g, node.Left) \o W(".") \o generateExpression(g, node.Right)

generateIndexExpression(g, node) ==
    generateExpression(g, node.Left) \o W("[") \o generateExpression(g, node.Index) \o W("]")

generateExpression(g, expr) ==
    CASE IsNode(expr, "Identifier")       -> W(expr.Name)
      [] IsNode(expr, "NumberLiteral")    -> <<expr.Token.Literal>>
      [] IsNode(expr, "StringLiteral")    -> <<StringText(expr.Str)>>
      [] IsNode(expr, "BooleanLiteral")   -> IF expr.Bool THEN W("true") ELSE W("false")
      [] IsNode(expr, "NilLiteral")       -> W("nil")
      [] IsNode(expr, "TableLiteral")     -> generateTableLiteral(g, expr)
      [] IsNode(expr, "PrefixExpression") -> generatePrefixExpression(g, expr)
      [] IsNode(expr, "InfixExpression")  -> generateInfixExpression(g, expr)
      [] IsNode(expr, "CallExpression")   -> generateCallExpression(g, expr)
      [] IsNode(expr, "DotExpression")    -> generateDotExpression(g, expr)
      [] IsNode(expr, "IndexExpression")  -> generateIndexExpression(g, expr)
      [] OTHER -> <<>>

\* The permutations of 1..n.
MapOrders(n) == {p \in [1..n -> 1..n] : \A i, j \in 1..n : p[i] = p[j] => i = j}
\* A generator whose maps iterate in insertion order.
InOrder == [n \in 0..MaxPairs |-> [i \in 1..n |-> i]]

(***************************************************************************)
(* lexer: from text to tokens.  Text is the sequence of its lexemes.       *)
(***************************************************************************)
keywords ==
    {"class", "interface", "enum", "type", "end", "public", "private", "protected",
     "static", "abstract", "readonly", "function", "local", "const", "return", "if",
     "else", "then", "for", "while", "do", "break", "in", "extends", "implements",
     "constructor", "self", "super", "and", "or", "not", "void", "export", "import",
     "from", "declare", "table", "any", "string", "number", "boolean", "nil", "true",
     "false"}

\* The operators and delimiters that have a token type; the type is their spelling.
symbols ==
    {"=", "+", "-", "!", "*", "/", "%", "==", "~=", "!=", "<", ">", "<=", ">=", "..",
     ",", ":", ".", "(", ")", "[", "]", "{", "}", "=>", "?", "|"}

\* Characters the lexer has no token for.
illegals == {"^", "&&", "||", "~", "&", "#", ";", "@", "$"}

\* A keyword's type is the keyword; any other word is an identifier.
LookupIdent(ident) == IF ident \in keywords THEN ident ELSE "IDENT"

\* readString: the characters up to the closing quote, escapes resolved.
RECURSIVE readString(_)
readString(raw) ==
    IF raw = <<>> THEN <<>>
    ELSE IF raw[1] = "\\"
    THEN (IF Len(raw) = 1 THEN <<>>
          ELSE <<(CASE raw[2] = "n" -> "\n"
                    [] raw[2] = "t" -> "\t"
                    [] raw[2] = "r" -> "\r"
                    [] OTHER -> raw[2])>> \o readString(SubSeq(raw, 3, Len(raw))))
    ELSE IF raw[1] = "\"" THEN <<>>
    ELSE <<raw[1]>> \o readString(Tail(raw))

\* The text between the quotes holds a quote that closes the string early.
RECURSIVE ClosesEarly(_)
ClosesEarly(raw) ==
    IF raw = <<>> THEN FALSE
    ELSE IF raw[1] = "\\" THEN (Len(raw) > 1 /\ ClosesEarly(SubSeq(raw, 3, Len(raw))))
    ELSE raw[1] = "\"" \/ ClosesEarly(Tail(raw))

\* NextToken on one lexeme.  What follows an early closing quote is lexed on its
\* own; it stands here as one illegal token.
NextToken(text) ==
    CASE text.kind = "numeral" -> <<Tok("NUMBER", text)>>
      [] text.kind = "string"  ->
            <<Tok("STRING", StringText(readString(text.raw)))>>
              \o (IF ClosesEarly(text.raw) THEN <<Tok("ILLEGAL", NoText)>> ELSE <<>>)
      [] text.chars \in symbols  -> <<Tok(text.chars, text)>>
      [] text.chars \in illegals -> <<Tok("ILLEGAL", text)>>
      [] OTHER -> <<Tok(LookupIdent(text.chars), text)>>

RECURSIVE Lex(_)
Lex(text) == IF text = <<>> THEN <<>> ELSE NextToken(text[1]) \o Lex(Tail(text))

(***************************************************************************)
(* parser.go: expressions.  The parser is at position pos of the token     *)
(* sequence: curToken is toks[pos], peekToken is toks[pos + 1], and past   *)
(* the end every token is EOF.  A parse function returns the node (or nil),*)
(* the position it stopped at and the number of errors it reported.        *)
(***************************************************************************)
EOFToken == Tok("EOF", NoText)
curToken(toks, pos)  == IF pos \in 1..Len(toks) THEN toks[pos] ELSE EOFToken
peekToken(toks, pos) == curToken(toks, pos + 1)

LOWEST      == 1
OR_PREC     == 2
AND_PREC    == 3
EQUALS      == 4
LESSGREATER == 5
SUM         == 6
PRODUCT     == 7
PREFIX      == 8
DOT         == 9
CALL        == 10

precedences(type) ==
    CASE type = "or"  -> OR_PREC
      [] type = "and" -> AND_PREC
      [] type \in {"==", "!=", "~="} -> EQUALS
      [] type \in {"<", ">", "<=", ">="} -> LESSGREATER
      [] type \in {"+", "-"} -> SUM
      [] type \in {"*", "/", "%"} -> PRODUCT
      [] type = "." -> DOT
      [] type \in {"[", "("} -> CALL
      [] type = ".." -> SUM
      [] OTHER -> LOWEST

peekPrecedence(toks, pos) == precedences(peekToken(toks, pos).Type)
curPrecedence(toks, pos)  == precedences(curToken(toks, pos).Type)

prefixParseFns ==
    {"IDENT", "self", "NUMBER", "STRING", "true", "false", "nil", "!", "-", "not", "(", "{"}
infixParseFns ==
    {"+", "-", "*", "/", "%", "==", "!=", "~=", "<", ">", "<=", ">=", "and", "or",
     "[", "(", ".", ".."}

Parsed(exp, pos, errors) == [exp |-> exp, pos |-> pos, errors |-> errors]

parseIdentifier(toks, pos) ==
    Parsed(Identifier(curToken(toks, pos)), pos, 0)

parseNumberLiteral(toks, pos) ==
    LET tok == curToken(toks, pos)
    IN  IF ParseFloatFails(tok.Literal) THEN Parsed(NilExpr, pos, 1)
        ELSE Parsed(NumberLiteral(tok, ParseFloat(tok.Literal)), pos, 0)

parseStringLiteral(toks, pos) ==
    Parsed(StringLiteral(curToken(toks, pos), curToken(toks, pos).Literal.raw), pos, 0)

parseBooleanLiteral(toks, pos) ==
    Parsed(BooleanLiteral(curToken(toks, pos), curToken(toks, pos).Type = "true"), pos, 0)

parseNilLiteral(toks, pos) ==
    Parsed(NilLiteral(curToken(toks, pos)), pos, 0)

RECURSIVE parseExpression(_, _, _)
RECURSIVE parseInfixLoop(_, _, _)
RECURSIVE parseExpressionListRest(_, _, _)
RECURSIVE parseTablePairs(_, _)

\* expectPeek(t): the position after it, or the same position and a reported error.
expectPeek(toks, pos, t) ==
    IF peekToken(toks, pos).Type = t THEN [ok |-> TRUE, pos |-> pos + 1, errors |-> 0]
    ELSE [ok |-> FALSE, pos |-> pos, errors |-> 1]

parsePrefixExpression(toks, pos) ==
    LET tok   == curToken(toks, pos)
        right == parseExpression(toks, pos + 1, PREFIX)
    IN  Parsed(PrefixExpression(tok, tok.Literal.chars, right.exp), right.pos, right.errors)

parseGroupedExpression(toks, pos) ==
    LET inner  == parseExpression(toks, pos + 1, LOWEST)
        closed == expectPeek(toks, inner.pos, ")")
    IN  Parsed(IF closed.ok THEN inner.exp ELSE NilExpr, closed.pos,
               inner.errors + closed.errors)

\* The loop of parseTableLiteral, with curToken at toks[acc.pos]; acc holds the
\* table so far in acc.exp, and acc.exp is nil once the literal is given up.
parseTablePairs(toks, acc) ==
    LET pos == acc.pos
    IN  IF acc.exp = NilExpr \/ curToken(toks, pos).Type \in {"}", "EOF"} THEN acc
        ELSE LET isPair == curToken(toks, pos).Type = "IDENT" /\ peekToken(toks, pos).Type = "="
                 value  == parseExpression(toks, IF isPair THEN pos + 2 ELSE pos, LOWEST)
                 table  == IF isPair
                           THEN [acc.exp EXCEPT !.Pairs =
                                    Append(@, <<Identifier(curToken(toks, pos)), value.exp>>)]
                           ELSE [acc.exp EXCEPT !.Values = Append(@, value.exp)]
                 comma  == expectPeek(toks, value.pos, ",")
             IN  IF peekToken(toks, value.pos).Type = "}"
                 THEN parseTablePairs(toks, Parsed(table, value.pos + 1, acc.errors + value.errors))
                 ELSE IF ~comma.ok
                 THEN Parsed(NilExpr, comma.pos, acc.errors + value.errors + comma.errors)
                 ELSE parseTablePairs(toks, Parsed(table, comma.pos + 1, acc.errors + value.errors))

parseTableLiteral(toks, pos) ==
    LET table == TableLiteral(curToken(toks, pos), <<>>, <<>>)
    IN  IF peekToken(toks, pos).Type = "}" THEN Parsed(table, pos + 1, 0)
        ELSE parseTablePairs(toks, Parsed(table, pos + 1, 0))

parseInfixExpression(toks, pos, left) ==
    LET tok   == curToken(toks, pos)
        right == parseExpression(toks, pos + 1, curPrecedence(toks, pos))
    IN  Parsed(InfixExpression(tok, left, tok.Literal.chars, right.exp), right.pos, right.errors)

parseDotExpression(toks, pos, left) ==
    LET right == parseExpression(toks, pos + 1, curPrecedence(toks, pos))
    IN  Parsed(DotExpression(curToken(toks, pos), left, right.exp), right.pos, right.errors)

parseIndexExpression(toks, pos, left) ==
    LET index  == parseExpression(toks, pos + 1, LOWEST)
        closed == expectPeek(toks, index.pos, "]")
    IN  Parsed(IF closed.ok THEN IndexExpression(curToken(toks, pos), left, index.exp)
               ELSE NilExpr,
               closed.pos, index.errors + closed.errors)

\* The loop of parseExpressionList: acc.exp is the list so far.
parseExpressionListRest(toks, acc, end) ==
    IF peekToken(toks, acc.pos).Type = ","
    THEN LET next == parseExpression(toks, acc.pos + 2, LOWEST)
         IN  parseExpressionListRest(toks, Parsed(Append(acc.exp, next.exp), next.pos,
                                                  acc.errors + next.errors), end)
    ELSE LET closed == expectPeek(toks, acc.pos, end)
         IN  Parsed(IF closed.ok THEN acc.exp ELSE <<>>, closed.pos, acc.errors + closed.errors)

parseExpressionList(toks, pos, end) ==
    IF peekToken(toks, pos).Type = end THEN Parsed(<<>>, pos + 1, 0)
    ELSE LET first == parseExpression(toks, pos + 1, LOWEST)
         IN  parseExpressionListRest(toks, Parsed(<<first.exp>>, first.pos, first.errors), end)

parseCallExpression(toks, pos, function) ==
    LET arguments == parseExpressionList(toks, pos, ")")
    IN  Parsed(CallExpression(curToken(toks, pos), function, arguments.exp),
               arguments.pos, arguments.errors)

\* The prefix parse function registered for curToken's type.
parsePrefix(toks, pos) ==
    LET type == curToken(toks, pos).Type
    IN  CASE type \in {"IDENT", "self"} -> parseIdentifier(toks, pos)
          [] type = "NUMBER" -> parseNumberLiteral(toks, pos)
          [] type = "STRING" -> parseStringLiteral(toks, pos)
          [] type \in {"true", "false"} -> parseBooleanLiteral(toks, pos)
          [] type = "nil" -> parseNilLiteral(toks, pos)
          [] type \in {"!", "-", "not"} -> parsePrefixExpression(toks, pos)
          [] type = "(" -> parseGroupedExpression(toks, pos)
          [] type = "{" -> parseTableLiteral(toks, pos)

\* The infix parse function registered for curToken's type.
parseInfix(toks, pos, left) ==
    LET type == curToken(toks, pos).Type
    IN  CASE type = "[" -> parseIndexExpression(toks, pos, left)
          [] type = "(" -> parseCallExpression(toks, pos, left)
          [] type = "." -> parseDotExpression(toks, pos, left)
          [] OTHER -> parseInfixExpression(toks, pos, left)

\* The loop of parseExpression: left is the expression so far.
parseInfixLoop(toks, left, precedence) ==
    IF precedence < peekPrecedence(toks, left.pos)
    THEN IF peekToken(toks, left.pos).Type \notin infixParseFns THEN left
         ELSE LET next == parseInfix(toks, left.pos + 1, left.exp)
              IN  parseInfixLoop(toks, Parsed(next.exp, next.pos, left.errors + next.errors),
                                 precedence)
    ELSE left

parseExpression(toks, pos, precedence) ==
    IF curToken(toks, pos).Type \notin prefixParseFns THEN Parsed(NilExpr, pos, 1)
    ELSE parseInfixLoop(toks, parsePrefix(toks, pos), precedence)

\* The expression of an expression statement that is the whole program.
ParseProgram(text) == parseExpression(Lex(text), 1, LOWEST)

(***************************************************************************)
(* The optimizer on one expression: parse, optimize, generate.             *)
(***************************************************************************)
\* Nodes as parseNumberLiteral, parsePrefixExpression and parseInfixExpression build them.
ParsedNumber(q)       == NumberLiteral(Tok("NUMBER", NumeralText(q)), q)
ParsedPrefix(op, r)   == PrefixExpression(Tok(op, WordText(op)), op, r)
ParsedInfix(l, op, r) == InfixExpression(Tok(op, WordText(op)), l, op, r)

\* 0, 2, 4, 5.5 and 0.5
OptNumbers   == {<<0, 1>>, <<2, 1>>, <<4, 1>>, <<11, 2>>, <<1, 2>>}
\* The lexer has no token for "^".
OptOperators == (ArithmeticOps \ {"^"}) \cup ComparisonOps
OptLiterals  == {ParsedNumber(q) : q \in OptNumbers}
OptOperands  == OptLiterals \cup {ParsedPrefix("-", n) : n \in OptLiterals}
OptFlat      == {ParsedInfix(l, op, r) : l \in OptOperands, op \in OptOperators, r \in OptOperands}
OptSimple    == {ParsedInfix(l, op, r) : l \in OptLiterals, op \in OptOperators, r \in OptLiterals}
\* true and false, the variable x and the call f(), under and / or, nested once.
ParsedBoolean(b) ==
    BooleanLiteral(Tok(IF b THEN "true" ELSE "false", WordText(IF b THEN "true" ELSE "false")), b)
ParsedCall(f)    == CallExpression(Tok("(", WordText("(")), Identifier(Tok("IDENT", WordText(f))), <<>>)
OptBooleans    == {ParsedBoolean(TRUE), ParsedBoolean(FALSE)}
OptNonLiterals == {Identifier(Tok("IDENT", WordText("x"))), ParsedCall("f")}
OptLogicFlat ==
    {ParsedInfix(l, op, r) : l \in OptBooleans \cup OptNonLiterals, op \in {"and", "or"},
                             r \in OptBooleans \cup OptNonLiterals}
OptLogic ==
    OptLogicFlat \cup {ParsedInfix(l, op, r) : l \in OptLogicFlat, op \in {"and", "or"},
                                              r \in OptBooleans}
OptInputs ==
    OptOperands \cup OptFlat \cup OptLogic
      \cup {ParsedInfix(l, op, r) : l \in OptSimple, op \in OptOperators, r \in OptLiterals}
      \cup {ParsedInfix(l, op, r) : l \in OptLiterals, op \in OptOperators, r \in OptSimple}

OptIdle ==
    /\ optPc = "idle"
    /\ optExpr = NilExpr
    /\ optResult = NilExpr
    /\ optEmitted = <<>>

OptInit ==
    /\ optPc = "parsed"
    /\ optExpr \in OptInputs
    /\ optResult = NilExpr
    /\ optEmitted = <<>>

\* GenerateWithOptions(statements, true): the optimizer runs first ...
OptimizeStatements ==
    /\ optPc = "parsed"
    /\ optResult' = optimizeExpression(optExpr)
    /\ optPc' = IF optResult' = Panic THEN "aborted" ELSE "optimized"
    /\ UNCHANGED <<optExpr, optEmitted>>
    /\ UNCHANGED optOthers

\* ... and the generator then emits the optimized expression.
OptGenerate ==
    /\ optPc = "optimized"
    /\ optEmitted' = generateExpression([classes |-> {}, order |-> InOrder], optResult)
    /\ optPc' = "generated"
    /\ UNCHANGED <<optExpr, optResult>>
    /\ UNCHANGED optOthers

(***************************************************************************)
(* compile: lex and parse the source, generate the target text; then the   *)
(* same once more, and the emitted text parsed again.                      *)
(***************************************************************************)
\* The orders in which the runtime may iterate the maps of one run.
GenOrders ==
    {o \in [0..MaxPairs -> UNION {MapOrders(n) : n \in 0..MaxPairs}] :
        \A n \in 0..MaxPairs : o[n] \in MapOrders(n)}

SrcAtoms     == {WordText("a"), WordText("b"), NumeralText(<<1, 1>>)}
SrcNames     == {WordText("a"), WordText("b")}
SrcOperators == {"+", "-", "*", "==", "!=", "<", "..", "and", "or"}
SrcPrefixes  == {"-", "not"}
SrcBinary    == {<<x, WordText(o), y>> : x \in SrcAtoms, o \in SrcOperators, y \in SrcAtoms}
SrcUnary     == {<<WordText(o), x>> : o \in SrcPrefixes, x \in SrcAtoms}
InParens(text) == W("(") \o text \o W(")")

\* Well-formed expressions with and without parentheses, and some cut short.
SrcExpressions ==
    {<<x>> : x \in SrcAtoms} \cup SrcBinary \cup SrcUnary
      \cup {InParens(l) \o <<WordText(o), z>> : l \in SrcBinary, o \in SrcOperators, z \in SrcAtoms}
      \cup {<<x, WordText(o)>> \o InParens(r) : x \in SrcAtoms, o \in SrcOperators, r \in SrcBinary}
      \cup {l \o <<WordText(o), z>> : l \in SrcBinary, o \in SrcOperators, z \in SrcAtoms}
      \cup {<<WordText(o)>> \o InParens(r) : o \in SrcPrefixes, r \in SrcBinary}
      \cup {InParens(r) \o <<WordText("."), n>> : r \in SrcBinary \cup SrcUnary, n \in SrcNames}
      \cup {InParens(r) \o W("[") \o <<x>> \o W("]") : r \in SrcBinary \cup SrcUnary, x \in SrcAtoms}
      \cup {InParens(r) \o InParens(<<x>>) : r \in SrcBinary \cup SrcUnary, x \in SrcAtoms}
      \cup {<<n, WordText("."), m>> : n \in SrcNames, m \in SrcNames}
      \cup {<<n, WordText("."), m>> \o InParens(<<x>>) : n \in SrcNames, m \in SrcNames, x \in SrcAtoms}
      \cup {InParens(<<n, WordText("."), m>>) \o InParens(<<x>>) :
                n \in SrcNames, m \in SrcNames, x \in SrcAtoms}
      \cup {<<n>> \o W("[") \o <<x>> \o W("]") : n \in SrcNames, x \in SrcAtoms}
      \cup {<<n>> \o InParens(<<x>> \o W(",") \o <<y>>) : n \in SrcNames, x \in SrcAtoms, y \in SrcAtoms}
      \cup {W("(") \o l : l \in SrcBinary}

SrcPairs == {<<k, WordText("="), x>> : k \in SrcNames, x \in SrcAtoms}
SrcTables ==
    {W("{") \o W("}")}
      \cup {W("{") \o <<x>> \o W("}") : x \in SrcAtoms}
      \cup {W("{") \o p \o W("}") : p \in SrcPairs}
      \cup {W("{") \o p \o W(",") \o q \o W("}") : p \in SrcPairs, q \in SrcPairs}
      \cup {W("{") \o <<x>> \o W(",") \o p \o W(",") \o q \o W("}") :
                x \in SrcAtoms, p \in SrcPairs, q \in SrcPairs}

RtIdle ==
    /\ rtPc = "idle"
    /\ rtSource = <<>>
    /\ rtAst = NilExpr
    /\ rtEmitted = <<>>
    /\ rtEmitted2 = <<>>
    /\ rtAst2 = NilExpr

\* String literals as written in the source: a, an escaped quote, an escaped
\* backslash before n, an escaped newline, and a quote between letters.
SrcStrings ==
    {<<StringText(raw)>> :
        raw \in {<<"a">>, <<"\\", "\"">>, <<"\\", "\\", "n">>, <<"\\", "n">>,
                 <<"a", "\\", "\"", "b">>}}

RtInit ==
    /\ rtPc = "source"
    /\ rtSource \in SrcExpressions \cup SrcTables \cup SrcStrings
    /\ rtAst = NilExpr
    /\ rtEmitted = <<>>
    /\ rtEmitted2 = <<>>
    /\ rtAst2 = NilExpr

\* parser.New(lexer.New(source)).Parse(); compile stops on parser errors.
Parse ==
    /\ rtPc = "source"
    /\ LET parsed == ParseProgram(rtSource)
       IN  /\ rtAst' = parsed.exp
           /\ rtPc' = IF parsed.errors > 0 THEN "rejected" ELSE "parsed"
    /\ UNCHANGED <<rtSource, rtEmitted, rtEmitted2, rtAst2>>
    /\ UNCHANGED rtOthers

\* codegen.Generate, a first run.
Generate ==
    /\ rtPc = "parsed"
    /\ \E order \in GenOrders :
          rtEmitted' = generateExpression([classes |-> {}, order |-> order], rtAst)
    /\ rtPc' = "generated"
    /\ UNCHANGED <<rtSource, rtAst, rtEmitted2, rtAst2>>
    /\ UNCHANGED rtOthers

\* codegen.Generate, a second run on the same input.
GenerateAgain ==
    /\ rtPc = "generated"
    /\ \E order \in GenOrders :
          rtEmitted2' = generateExpression([classes |-> {}, order |-> order], rtAst)
    /\ rtPc' = "regenerated"
    /\ UNCHANGED <<rtSource, rtAst, rtEmitted, rtAst2>>
    /\ UNCHANGED rtOthers

\* The text of the first run, parsed again.
Reparse ==
    /\ rtPc = "regenerated"
    /\ rtAst2' = ParseProgram(rtEmitted).exp
    /\ rtPc' = "reparsed"
    /\ UNCHANGED <<rtSource, rtAst, rtEmitted, rtEmitted2>>
    /\ UNCHANGED rtOthers

(***************************************************************************)
(* types.go.  A type is a record with its kind and the fields of the Go    *)
(* struct.  A map from names is the set of its <<name, value>> entries.  A *)
(* pointer to an interface type is the interface type as it was registered.*)
(***************************************************************************)
Number  == [kind |-> "number"]
String  == [kind |-> "string"]
Boolean == [kind |-> "boolean"]
Nil     == [kind |-> "nil"]
Void    == [kind |-> "void"]
AnyType     == [kind |-> "any"]
\* No type: a Go nil Type.
NoType  == [kind |-> "none"]
StringLiteralType(value)    == [kind |-> "stringLiteral", StrValue |-> value]
NumberLiteralType(value)    == [kind |-> "numberLiteral", NumValue |-> value]
ArrayType(elementType)      == [kind |-> "array", ElementType |-> elementType]
TableType(keyType, valType) == [kind |-> "table", KeyType |-> keyType, ValueType |-> valType]
FunctionType(parameters, returnType) ==
    [kind |-> "function", Parameters |-> parameters, ReturnType |-> returnType]
UnionType(types)            == [kind |-> "union", Types |-> types]
OptionalType(baseType)      == [kind |-> "optional", BaseType |-> baseType]
TupleType(elements)         == [kind |-> "tuple", Elements |-> elements]
ClassType(name, properties, methods, implements) ==
    [kind |-> "class", Name |-> name, Properties |-> properties, Methods |-> methods,
     Implements |-> implements]
InterfaceType(name, methods, properties, extends) ==
    [kind |-> "interface", Name |-> name, Methods |-> methods, Properties |-> properties,
     Extends |-> extends]
\* Every member of an enum has the enum itself as its type: Members holds the names.
EnumType(name, members)     == [kind |-> "enum", Name |-> name, Members |-> members]

IsKind(t, kind) == t.kind = kind

\* m[name] of a Go map: has the key, and the value under it.
HasKey(m, name) == \E entry \in m : entry[1] = name
Lookup(m, name) == (CHOOSE entry \in m : entry[1] = name)[2]
\* m[name] = value
Store(m, name, value) == {entry \in m : entry[1] # name} \cup {<<name, value>>}

RECURSIVE Equals(_, _)
Equals(t, other) ==
    CASE t.kind \in {"number", "string", "boolean", "nil", "void", "any"} -> other.kind = t.kind
      [] IsKind(t, "stringLiteral") -> IsKind(other, "stringLiteral") /\ t.StrValue = other.StrValue
      [] IsKind(t, "numberLiteral") -> IsKind(other, "numberLiteral") /\ t.NumValue = other.NumValue
      [] IsKind(t, "array") -> IsKind(other, "array") /\ Equals(t.ElementType, other.ElementType)
      [] IsKind(t, "table") ->
            /\ IsKind(other, "table")
            /\ Equals(t.KeyType, other.KeyType)
            /\ Equals(t.ValueType, other.ValueType)
      [] IsKind(t, "function") ->
            /\ IsKind(other, "function")
            /\ Len(t.Parameters) = Len(other.Parameters)
            /\ \A i \in 1..Len(t.Parameters) : Equals(t.Parameters[i], other.Parameters[i])
            /\ Equals(t.ReturnType, other.ReturnType)
      [] IsKind(t, "union") ->
            /\ IsKind(other, "union")
            /\ Len(t.Types) = Len(other.Types)
            /\ \A i \in 1..Len(t.Types) :
                  \E j \in 1..Len(other.Types) : Equals(t.Types[i], other.Types[j])
      [] IsKind(t, "optional") -> IsKind(other, "optional") /\ Equals(t.BaseType, other.BaseType)
      [] IsKind(t, "tuple") ->
            /\ IsKind(other, "tuple")
            /\ Len(t.Elements) = Len(other.Elements)
            /\ \A i \in 1..Len(t.Elements) : Equals(t.Elements[i], other.Elements[i])
      [] t.kind \in {"class", "interface", "enum"} -> other.kind = t.kind /\ t.Name = other.Name
      [] OTHER -> FALSE

\* UnionType.Contains
Contains(union, typ) == \E i \in 1..Len(union.Types) : Equals(union.Types[i], typ)

\* The union has a member of the given kind.
HasMemberOfKind(union, kind) == \E i \in 1..Len(union.Types) : IsKind(union.Types[i], kind)

RECURSIVE IsAssignableTo(_, _)
\* The structural rule of InterfaceType.IsAssignableTo: every property and method
\* of the other interface is one of this interface, with an assignable type.
HasAllMembers(t, other) ==
    /\ \A prop \in other.Properties :
          /\ HasKey(t.Properties, prop[1])
          /\ IsAssignableTo(Lookup(t.Properties, prop[1]), prop[2])
    /\ \A method \in other.Methods :
          /\ HasKey(t.Methods, method[1])
          /\ IsAssignableTo(Lookup(t.Methods, method[1]), method[2])

IsAssignableTo(t, other) ==
    CASE IsKind(t, "any") -> TRUE
      [] Equals(t, other) -> TRUE
      [] IsKind(other, "any") -> TRUE
      [] t.kind \in {"number", "string", "boolean"} ->
            IsKind(other, "union") /\ Contains(other, t)
      [] IsKind(t, "nil") ->
            IF IsKind(other, "optional") THEN TRUE
            ELSE IsKind(other, "union") /\ Contains(other, t)
      [] IsKind(t, "void") -> FALSE
      [] IsKind(t, "stringLiteral") ->
            \/ IsKind(other, "string")
            \/ IsKind(other, "union") /\ (Contains(other, t) \/ HasMemberOfKind(other, "string"))
      [] IsKind(t, "numberLiteral") ->
            \/ IsKind(other, "number")
            \/ IsKind(other, "union") /\ (Contains(other, t) \/ HasMemberOfKind(other, "number"))
      [] IsKind(t, "array") ->
            IsKind(other, "array") /\ IsAssignableTo(t.ElementType, other.ElementType)
      [] IsKind(t, "table") ->
            /\ IsKind(other, "table")
            /\ IsAssignableTo(t.KeyType, other.KeyType)
            /\ IsAssignableTo(t.ValueType, other.ValueType)
      [] IsKind(t, "function") ->
            /\ IsKind(other, "function")
            /\ Len(t.Parameters) = Len(other.Parameters)
            /\ \A i \in 1..Len(t.Parameters) :
                  IsAssignableTo(other.Parameters[i], t.Parameters[i])
            /\ IsAssignableTo(t.ReturnType, other.ReturnType)
      [] IsKind(t, "union") ->
            \A i \in 1..Len(t.Types) : IsAssignableTo(t.Types[i], other)
      [] IsKind(t, "optional") ->
            IsKind(other, "optional") /\ IsAssignableTo(t.BaseType, other.BaseType)
      [] IsKind(t, "tuple") ->
            /\ IsKind(other, "tuple")
            /\ Len(t.Elements) = Len(other.Elements)
            /\ \A i \in 1..Len(t.Elements) : IsAssignableTo(t.Elements[i], other.Elements[i])
      [] IsKind(t, "class") ->
            /\ IsKind(other, "interface")
            /\ \E i \in 1..Len(t.Implements) : Equals(t.Implements[i], other)
      [] IsKind(t, "interface") ->
            /\ IsKind(other, "interface")
            /\ \/ \E i \in 1..Len(t.Extends) : Equals(t.Extends[i], other)
               \/ HasAllMembers(t, other)
      [] IsKind(t, "enum") -> FALSE
      [] OTHER -> FALSE

(***************************************************************************)
(* ast: type expressions and declarations.                                 *)
(***************************************************************************)
TypeName(name)               == Identifier(Tok("IDENT", WordText(name)))
AstArrayType(elementType)    == [node |-> "ArrayType", ElementType |-> elementType]
AstTableType(keyType, valueType) ==
    [node |-> "TableType", KeyType |-> keyType, ValueType |-> valueType]
AstUnionType(types)          == [node |-> "UnionType", Types |-> types]
AstTupleType(types)          == [node |-> "TupleType", Types |-> types]
\* Parameters: the parameters' type expressions.
AstFunctionType(parameters, returnType) ==
    [node |-> "FunctionType", Parameters |-> parameters, ReturnType |-> returnType]
AstOptionalType(baseType)    == [node |-> "OptionalType", BaseType |-> baseType]

\* A property, and a method's signature with its parameters' type expressions
\* (an InterfaceMethod, or the FunctionDeclaration of a class method, whose
\* body is empty in the model).
PropertyDeclaration(name, type) == [Name |-> name, Type |-> type]
InterfaceMethod(name, parameters, returnType) ==
    [Name |-> name, Parameters |-> parameters, ReturnType |-> returnType]
\* The method of a class with its visibility modifier.
MethodDeclaration(name, visibility, parameters, returnType) ==
    [Name |-> name, Visibility |-> visibility, Parameters |-> parameters,
     ReturnType |-> returnType]
\* Constructor is NilExpr for a class that declares none, Extends for a class
\* without a parent class.
ClassDeclaration(name, properties, methods, constructor, implements) ==
    [node |-> "ClassDeclaration", Name |-> name, Properties |-> properties,
     Methods |-> methods, Constructor |-> constructor, Implements |-> implements,
     Extends |-> NilExpr]
\* class Name extends Parent
Subclass(class, parent) == [class EXCEPT !.Extends = parent]
InterfaceDeclaration(name, properties, methods, extends) ==
    [node |-> "InterfaceDeclaration", Name |-> name, Properties |-> properties,
     Methods |-> methods, Extends |-> extends]
EnumDeclaration(name, members) ==
    [node |-> "EnumDeclaration", Name |-> name, Members |-> members]
VariableDeclaration(name, type, value, isConstant) ==
    [node |-> "VariableDeclaration", Name |-> name, Type |-> type, Value |-> value,
     IsConstant |-> isConstant]
AssignmentStatement(name, value) ==
    [node |-> "AssignmentStatement", Name |-> name, Value |-> value]
ExpressionStatement(expression) ==
    [node |-> "ExpressionStatement", Expression |-> expression]

(***************************************************************************)
(* ast: statements with blocks.  A statement that is absent (a nil         *)
(* pointer) is NilExpr.                                                    *)
(***************************************************************************)
Parameter(name, type)   == [Name |-> name, Type |-> type]
BlockStatement(stmts)   == [node |-> "BlockStatement", Statements |-> stmts]
FunctionDeclaration(name, parameters, returnType, body) ==
    [node |-> "FunctionDeclaration", Name |-> name, Parameters |-> parameters,
     ReturnType |-> returnType, Body |-> body]
ConstructorDeclaration(parameters, body) ==
    [node |-> "ConstructorDeclaration", Parameters |-> parameters, Body |-> body]
ReturnStatement(value)  == [node |-> "ReturnStatement", ReturnValue |-> value]
IfStatement(condition, consequence, alternative) ==
    [node |-> "IfStatement", Condition |-> condition, Consequence |-> consequence,
     Alternative |-> alternative]
WhileStatement(condition, body) ==
    [node |-> "WhileStatement", Condition |-> condition, Body |-> body]
\* The numeric for loop; Step is NilExpr when the loop has none.
ForStatement(variable, start, end, step, body) ==
    [node |-> "ForStatement", Variable |-> variable, Start |-> start, End |-> end,
     Step |-> step, Body |-> body]
DoStatement(body)       == [node |-> "DoStatement", Body |-> body]
BreakStatement          == [node |-> "BreakStatement"]

(***************************************************************************)
(* check.go.  The checker c holds the environment, the names declared      *)
(* const, the registries and the errors so far.  A TypeError is its        *)
(* message (the format, and the names it is about) and the line of the      *)
(* statement whose check reported it.  c.order is the order in which this  *)
(* run's range loops visit the entries of a map.                           *)
(***************************************************************************)
TypeError(message, about, line) == [Message |-> message, About |-> about, Line |-> line]

NewChecker ==
    [env |-> {<<"number", Number>>, <<"string", String>>, <<"boolean", Boolean>>,
              <<"nil", Nil>>, <<"void", Void>>, <<"any", AnyType>>},
     constVars |-> {},
     errors |-> <<>>,
     classes |-> {},
     interfaces |-> {},
     enums |-> {},
     order |-> InOrder,
     line |-> 0]

addError(c, message, about) ==
    [c EXCEPT !.errors = Append(@, TypeError(message, about, c.line))]

\* A check's result: the checker after it and the type it returns.
Checked(c, typ) == [c |-> c, typ |-> typ]

RECURSIVE resolveTypeExpression(_, _)
RECURSIVE resolveTypeList(_, _, _)
\* resolveTypeExpression on each of exprs in turn; typ is the list of the types.
resolveTypeList(c, exprs, types) ==
    IF exprs = <<>> THEN Checked(c, types)
    ELSE LET first == resolveTypeExpression(c, Head(exprs))
         IN  resolveTypeList(first.c, Tail(exprs), Append(types, first.typ))

RECURSIVE Flatten(_)
\* The members of a union annotation: those of a member that is a union, in its place.
Flatten(types) ==
    IF types = <<>> THEN <<>>
    ELSE (IF IsKind(Head(types), "union") THEN Head(types).Types ELSE <<Head(types)>>)
            \o Flatten(Tail(types))

\* The programs of the model declare no type aliases and use no generic types.
resolveTypeExpression(c, expr) ==
    CASE expr = NilExpr -> Checked(c, AnyType)
      [] IsNode(expr, "Identifier") ->
            IF HasKey(c.env, expr.Name) THEN Checked(c, Lookup(c.env, expr.Name))
            ELSE IF HasKey(c.classes, expr.Name) THEN Checked(c, Lookup(c.classes, expr.Name))
            ELSE IF HasKey(c.interfaces, expr.Name) THEN Checked(c, Lookup(c.interfaces, expr.Name))
            ELSE IF HasKey(c.enums, expr.Name) THEN Checked(c, Lookup(c.enums, expr.Name))
            ELSE Checked(addError(c, "Unknown type", <<expr.Name>>), AnyType)
      [] IsNode(expr, "ArrayType") ->
            LET element == resolveTypeExpression(c, expr.ElementType)
            IN  Checked(element.c, ArrayType(element.typ))
      [] IsNode(expr, "TableType") ->
            LET key   == resolveTypeExpression(c, expr.KeyType)
                value == resolveTypeExpression(key.c, expr.ValueType)
            IN  Checked(value.c, TableType(key.typ, value.typ))
      [] IsNode(expr, "UnionType") ->
            LET members == resolveTypeList(c, expr.Types, <<>>)
            IN  Checked(members.c, UnionType(Flatten(members.typ)))
      [] IsNode(expr, "TupleType") ->
            LET elements == resolveTypeList(c, expr.Types, <<>>)
            IN  Checked(elements.c, TupleType(elements.typ))
      [] IsNode(expr, "FunctionType") ->
            LET params == resolveTypeList(c, expr.Parameters, <<>>)
                return == IF expr.ReturnType = NilExpr THEN Checked(params.c, Void)
                          ELSE resolveTypeExpression(params.c, expr.ReturnType)
            IN  Checked(return.c, FunctionType(params.typ, return.typ))
      [] IsNode(expr, "StringLiteral") -> Checked(c, StringLiteralType(expr.Str))
      [] IsNode(expr, "NumberLiteral") -> Checked(c, NumberLiteralType(expr.Value))
      [] OTHER -> Checked(addError(c, "Cannot resolve type expression", <<expr.node>>), AnyType)

RECURSIVE resolveProperties(_, _, _)
\* "for _, prop := range node.Properties": typ is the map from names to types.
resolveProperties(c, props, map) ==
    IF props = <<>> THEN Checked(c, map)
    ELSE LET propType == resolveTypeExpression(c, Head(props).Type)
         IN  resolveProperties(propType.c, Tail(props),
                               Store(map, Head(props).Name, propType.typ))

\* The signature of a declared method.
resolveMethod(c, method) ==
    LET params == resolveTypeList(c, method.Parameters, <<>>)
        return == IF method.ReturnType = NilExpr THEN Checked(params.c, Void)
                  ELSE resolveTypeExpression(params.c, method.ReturnType)
    IN  Checked(return.c, FunctionType(params.typ, return.typ))

RECURSIVE resolveMethods(_, _, _)
\* "for _, method := range node.Methods": typ is the map from names to signatures.
resolveMethods(c, methods, map) ==
    IF methods = <<>> THEN Checked(c, map)
    ELSE LET signature == resolveMethod(c, Head(methods))
         IN  resolveMethods(signature.c, Tail(methods),
                            Store(map, Head(methods).Name, signature.typ))

RECURSIVE resolveInterfaces(_, _, _)
\* The implements or extends clause: the interfaces registered under the names,
\* and an error for each name that is not registered.
resolveInterfaces(c, idents, found) ==
    IF idents = <<>> THEN Checked(c, found)
    ELSE LET name == Head(idents).Name
         IN  IF HasKey(c.interfaces, name)
             THEN resolveInterfaces(c, Tail(idents), Append(found, Lookup(c.interfaces, name)))
             ELSE resolveInterfaces(addError(c, "Interface not found", <<name>>), Tail(idents), found)

registerClass(c, node) ==
    LET props      == resolveProperties(c, node.Properties, {})
        methods    == resolveMethods(props.c, node.Methods, {})
        implements == resolveInterfaces(methods.c, node.Implements, <<>>)
        classType  == ClassType(node.Name, props.typ, methods.typ, implements.typ)
    IN  [implements.c EXCEPT !.classes = Store(@, node.Name, classType),
                             !.env = Store(@, node.Name, classType)]

registerInterface(c, node) ==
    LET props         == resolveProperties(c, node.Properties, {})
        methods       == resolveMethods(props.c, node.Methods, {})
        extends       == resolveInterfaces(methods.c, node.Extends, <<>>)
        interfaceType == InterfaceType(node.Name, methods.typ, props.typ, extends.typ)
    IN  [extends.c EXCEPT !.interfaces = Store(@, node.Name, interfaceType),
                          !.env = Store(@, node.Name, interfaceType)]

\* The members of the model's enums have no value expressions.
registerEnum(c, node) ==
    LET enumType == EnumType(node.Name, {node.Members[i] : i \in 1..Len(node.Members)})
    IN  [c EXCEPT !.enums = Store(@, node.Name, enumType),
                  !.env = Store(@, node.Name, enumType)]

registerTypeDefinition(c, stmt) ==
    CASE IsNode(stmt, "ClassDeclaration")     -> registerClass(c, stmt)
      [] IsNode(stmt, "InterfaceDeclaration") -> registerInterface(c, stmt)
      [] IsNode(stmt, "EnumDeclaration")      -> registerEnum(c, stmt)
      [] OTHER -> c

IsNumericType(t) == IsKind(t, "number")

RECURSIVE checkExpression(_, _)
RECURSIVE checkArguments(_, _, _, _)
\* "for i, arg := range node.Arguments": each argument is checked and must be
\* assignable to its parameter.
checkArguments(c, args, params, i) ==
    IF i > Len(args) THEN c
    ELSE LET arg == checkExpression(c, args[i])
         IN  checkArguments(IF IsAssignableTo(arg.typ, params[i]) THEN arg.c
                            ELSE addError(arg.c, "Argument: cannot pass type", <<>>),
                            args, params, i + 1)

checkIdentifier(c, node) ==
    IF HasKey(c.env, node.Name) THEN Checked(c, Lookup(c.env, node.Name))
    ELSE Checked(addError(c, "Undefined variable", <<node.Name>>), AnyType)

checkPrefixExpression(c, node) ==
    LET right == checkExpression(c, node.Right)
    IN  CASE node.Operator = "-" ->
               Checked(IF ~IsNumericType(right.typ) /\ ~Equals(right.typ, AnyType)
                       THEN addError(right.c, "Unary operator '-' cannot be applied to type", <<>>)
                       ELSE right.c, Number)
          [] node.Operator = "not" -> Checked(right.c, Boolean)
          [] OTHER -> Checked(right.c, AnyType)

checkInfixExpression(c, node) ==
    LET left    == checkExpression(c, node.Left)
        right   == checkExpression(left.c, node.Right)
        leftOk  == IsNumericType(left.typ) \/ Equals(left.typ, AnyType)
        rightOk == IsNumericType(right.typ) \/ Equals(right.typ, AnyType)
        c1 == IF leftOk THEN right.c
              ELSE addError(right.c, "Operator cannot be applied to type", <<node.Operator>>)
        c2 == IF rightOk THEN c1
              ELSE addError(c1, "Operator cannot be applied to type", <<node.Operator>>)
    IN  CASE node.Operator \in {"+", "-", "*", "/", "%", "^"} -> Checked(c2, Number)
          [] node.Operator \in {"==", "!=", "<", "<=", ">", ">="} -> Checked(right.c, Boolean)
          [] node.Operator \in {"and", "or"} -> Checked(right.c, Boolean)
          [] node.Operator = ".." -> Checked(right.c, String)
          [] OTHER -> Checked(right.c, AnyType)

checkCallExpression(c, node) ==
    LET function == checkExpression(c, node.Function)
        fnType   == function.typ
    IN  IF ~IsKind(fnType, "function")
        THEN Checked(IF Equals(fnType, AnyType) THEN function.c
                     ELSE addError(function.c, "Cannot call type", <<>>), AnyType)
        ELSE IF Len(node.Arguments) # Len(fnType.Parameters)
        THEN Checked(addError(function.c, "Function expects arguments, got", <<>>),
                     fnType.ReturnType)
        ELSE Checked(checkArguments(function.c, node.Arguments, fnType.Parameters, 1),
                     fnType.ReturnType)

checkIndexExpression(c, node) ==
    LET left  == checkExpression(c, node.Left)
        index == checkExpression(left.c, node.Index)
    IN  CASE IsKind(left.typ, "array") ->
               Checked(IF ~IsNumericType(index.typ) /\ ~Equals(index.typ, AnyType)
                       THEN addError(index.c, "Array index must be number, got", <<>>)
                       ELSE index.c, left.typ.ElementType)
          [] IsKind(left.typ, "table") ->
               Checked(IF ~IsAssignableTo(index.typ, left.typ.KeyType)
                       THEN addError(index.c, "Table key must be, got", <<>>)
                       ELSE index.c, left.typ.ValueType)
          [] OTHER -> Checked(index.c, AnyType)

\* Table literals and member accesses do not occur in the programs of the
\* model; every other kind of expression has its case.
checkExpression(c, expr) ==
    CASE expr = NilExpr -> Checked(c, Void)
      [] IsNode(expr, "Identifier")       -> checkIdentifier(c, expr)
      [] IsNode(expr, "NumberLiteral")    -> Checked(c, NumberLiteralType(expr.Value))
      [] IsNode(expr, "StringLiteral")    -> Checked(c, StringLiteralType(expr.Str))
      [] IsNode(expr, "BooleanLiteral")   -> Checked(c, Boolean)
      [] IsNode(expr, "NilLiteral")       -> Checked(c, Nil)
      [] IsNode(expr, "PrefixExpression") -> checkPrefixExpression(c, expr)
      [] IsNode(expr, "InfixExpression")  -> checkInfixExpression(c, expr)
      [] IsNode(expr, "CallExpression")   -> checkCallExpression(c, expr)
      [] IsNode(expr, "IndexExpression")  -> checkIndexExpression(c, expr)
      [] OTHER -> Checked(c, AnyType)

\* "for name, value := range m": the entries of the map in the order of this run.
RangeOver(c, m) ==
    LET n     == Cardinality(m)
        canon == CHOOSE s \in [1..n -> m] : \A entry \in m : \E i \in 1..n : s[i] = entry
    IN  [i \in 1..n |-> canon[c.order[n][i]]]

checkVariableDeclaration(c, node) ==
    LET declared == IF node.Type = NilExpr THEN Checked(c, NoType)
                    ELSE resolveTypeExpression(c, node.Type)
        value    == IF node.Value = NilExpr THEN Checked(declared.c, Nil)
                    ELSE checkExpression(declared.c, node.Value)
        c1       == IF declared.typ # NoType /\ ~IsAssignableTo(value.typ, declared.typ)
                    THEN addError(value.c, "Cannot assign type to variable of type", <<node.Name>>)
                    ELSE value.c
        typ      == IF declared.typ # NoType THEN declared.typ ELSE value.typ
    IN  [c1 EXCEPT !.env = Store(@, node.Name, typ),
                   !.constVars = IF node.IsConstant THEN @ \cup {node.Name} ELSE @]

checkAssignmentStatement(c, node) ==
    IF IsNode(node.Name, "Identifier") /\ node.Name.Name \in c.constVars
    THEN addError(c, "Cannot assign to const variable", <<node.Name.Name>>)
    ELSE LET target == checkExpression(c, node.Name)
             value  == checkExpression(target.c, node.Value)
         IN  IF IsAssignableTo(value.typ, target.typ) THEN value.c
             ELSE addError(value.c, "Cannot assign type to type", <<>>)

RECURSIVE checkInterfaceMethods(_, _, _, _)
\* "for methodName, ifaceMethod := range iface.Methods"
checkInterfaceMethods(c, class, iface, methods) ==
    IF methods = <<>> THEN c
    ELSE LET name == Head(methods)[1]
             c1 == IF ~HasKey(class.Methods, name)
                   THEN addError(c, "Class does not implement method from interface",
                                 <<class.Name, name, iface.Name>>)
                   ELSE IF ~Equals(Head(methods)[2], Lookup(class.Methods, name))
                   THEN addError(c, "Method in class has signature but interface requires",
                                 <<class.Name, name, iface.Name>>)
                   ELSE c
         IN  checkInterfaceMethods(c1, class, iface, Tail(methods))

RECURSIVE checkInterfaceProperties(_, _, _, _)
\* "for propName, ifaceProp := range iface.Properties"
checkInterfaceProperties(c, class, iface, props) ==
    IF props = <<>> THEN c
    ELSE LET name == Head(props)[1]
             c1 == IF ~HasKey(class.Properties, name)
                   THEN addError(c, "Class does not implement property from interface",
                                 <<class.Name, name, iface.Name>>)
                   ELSE IF ~Equals(Lookup(class.Properties, name), Head(props)[2])
                   THEN addError(c, "Property in class has type but interface requires",
                                 <<class.Name, name, iface.Name>>)
                   ELSE c
         IN  checkInterfaceProperties(c1, class, iface, Tail(props))

RECURSIVE checkClassImplementsInterface(_, _, _)
RECURSIVE checkClassImplementsInterfaces(_, _, _)
\* "for _, ext := range iface.Extends" and "for _, impl := range classType.Implements"
checkClassImplementsInterfaces(c, class, ifaces) ==
    IF ifaces = <<>> THEN c
    ELSE checkClassImplementsInterfaces(checkClassImplementsInterface(c, class, Head(ifaces)),
                                        class, Tail(ifaces))

checkClassImplementsInterface(c, class, iface) ==
    LET methods == checkInterfaceMethods(c, class, iface, RangeOver(c, iface.Methods))
        props   == checkInterfaceProperties(methods, class, iface,
                                            RangeOver(c, iface.Properties))
    IN  checkClassImplementsInterfaces(props, class, iface.Extends)

RECURSIVE checkMethods(_, _)
\* The methods of a class declaration: the return type, then the types of the
\* parameters, are resolved again (the model's methods have empty bodies, and
\* the scope opened for a method is closed after it).
checkMethods(c, methods) ==
    IF methods = <<>> THEN c
    ELSE LET return == IF Head(methods).ReturnType = NilExpr THEN Checked(c, Void)
                       ELSE resolveTypeExpression(c, Head(methods).ReturnType)
             params == resolveTypeList(return.c, Head(methods).Parameters, <<>>)
         IN  checkMethods(params.c, Tail(methods))

\* The model's classes have no constructor.
checkClassDeclaration(c, node) ==
    IF ~HasKey(c.classes, node.Name) THEN c
    ELSE LET classType == Lookup(c.classes, node.Name)
         IN  checkClassImplementsInterfaces(checkMethods(c, node.Methods),
                                            classType, classType.Implements)

RECURSIVE checkStatement(_, _)
RECURSIVE checkStatements(_, _, _)
\* "for _, stmt := range node.Statements"
checkStatements(c, stmts, i) ==
    IF i > Len(stmts) THEN c
    ELSE checkStatements(checkStatement(c, stmts[i]), stmts, i + 1)

\* The block is checked in an environment enclosed in the current one, which
\* is restored after it: what the block sets (the bindings and the const
\* marks) is gone, the errors stay.  Get and IsConst of the enclosed
\* environment fall through to the outer one, Set and SetConst write the
\* enclosed one only, so c.env and c.constVars are here what the chain of
\* environments answers.
checkBlockStatement(c, node) ==
    IF node = NilExpr THEN c
    ELSE LET body == checkStatements(c, node.Statements, 1)
         IN  [body EXCEPT !.env = c.env, !.constVars = c.constVars]

RECURSIVE resolveParameters(_, _, _)
\* "for i, param := range node.Parameters": the parameters' types.
resolveParameters(c, params, types) ==
    IF params = <<>> THEN Checked(c, types)
    ELSE LET first == IF Head(params).Type = NilExpr THEN Checked(c, AnyType)
                      ELSE resolveTypeExpression(c, Head(params).Type)
         IN  resolveParameters(first.c, Tail(params), Append(types, first.typ))

RECURSIVE setParameters(_, _, _, _)
\* "c.env.Set(param.Name.Value, params[i])" for each parameter.
setParameters(env, params, types, i) ==
    IF i > Len(params) THEN env
    ELSE setParameters(Store(env, params[i].Name, types[i]), params, types, i + 1)

\* The model's functions have no generic parameters and their bodies no
\* return statements.
checkFunctionDeclaration(c, node) ==
    LET params   == resolveParameters(c, node.Parameters, <<>>)
        return   == IF node.ReturnType = NilExpr THEN Checked(params.c, Void)
                    ELSE resolveTypeExpression(params.c, node.ReturnType)
        funcType == FunctionType(params.typ, return.typ)
        declared == [return.c EXCEPT !.env = Store(@, node.Name, funcType)]
        inner    == [declared EXCEPT !.env = setParameters(@, node.Parameters, params.typ, 1)]
        body     == checkBlockStatement(inner, node.Body)
    IN  [body EXCEPT !.env = declared.env, !.constVars = declared.constVars]

\* "if !IsNumericType(t) && !t.Equals(Any)": a bound of a for loop is
\* reported unless it is a number.
requireNumber(c, typ, message) ==
    IF ~IsNumericType(typ) /\ ~Equals(typ, AnyType) THEN addError(c, message, <<>>)
    ELSE c

\* The checks of the start and of the end, after both were checked.
checkForBounds(start, end) ==
    requireNumber(requireNumber(end.c, start.typ, "For loop start must be number, got"),
                  end.typ, "For loop end must be number, got")

\* The check of the step, after it was checked.
checkForStep(step) == requireNumber(step.c, step.typ, "For loop step must be number, got")

\* The end after the start, and the step, if there is one, after both.
checkForEnd(node, start) == checkForBounds(start, checkExpression(start.c, node.End))
checkForHeader(node, c2) ==
    IF node.Step = NilExpr THEN c2 ELSE checkForStep(checkExpression(c2, node.Step))

\* The checker after a scope is closed: the environment is the one before it.
closeScope(c, body) == [body EXCEPT !.env = c.env, !.constVars = c.constVars]

\* The numeric for loop: the variable is a number in a scope of its own, in
\* which the start, the end, the step and the body are checked.
checkForStatement(c, node) ==
    closeScope(c,
        checkBlockStatement(
            checkForHeader(node,
                checkForEnd(node,
                    checkExpression([c EXCEPT !.env = Store(@, node.Variable, Number)],
                                    node.Start))),
            node.Body))

\* The statements of the model's programs; the checker does nothing for a
\* statement of a kind it has no case for.
checkStatement(c, stmt) ==
    CASE IsNode(stmt, "VariableDeclaration") -> checkVariableDeclaration(c, stmt)
      [] IsNode(stmt, "FunctionDeclaration")  -> checkFunctionDeclaration(c, stmt)
      [] IsNode(stmt, "ExpressionStatement")  -> checkExpression(c, stmt.Expression).c
      [] IsNode(stmt, "AssignmentStatement")  -> checkAssignmentStatement(c, stmt)
      [] IsNode(stmt, "ForStatement")         -> checkForStatement(c, stmt)
      [] IsNode(stmt, "DoStatement")          -> checkBlockStatement(c, stmt.Body)
      [] IsNode(stmt, "BlockStatement")       -> checkBlockStatement(c, stmt)
      [] IsNode(stmt, "ClassDeclaration")     -> checkClassDeclaration(c, stmt)
      [] OTHER -> c

(***************************************************************************)
(* types.Check on a program: the first pass registers the type             *)
(* definitions, the second checks the statements, one statement a step.    *)
(* The programs are a prelude of declarations followed by two statements.  *)
(***************************************************************************)
Ident(w)        == Identifier(Tok("IDENT", WordText(w)))
CkNumber(i)     == NumberLiteral(Tok("NUMBER", NumeralText(RInt(i))), RInt(i))
CkString(chars) == StringLiteral(Tok("STRING", StringText(chars)), chars)
Property(name, typeName) == PropertyDeclaration(name, TypeName(typeName))
Let(name, type, value)   == VariableDeclaration(name, type, value, FALSE)
Const(name, type, value) == VariableDeclaration(name, type, value, TRUE)

InterfaceK == InterfaceDeclaration("K", <<Property("p", "number")>>, <<>>, <<>>)
InterfaceJ == InterfaceDeclaration("J", <<>>, <<>>, <<Ident("K")>>)
InterfaceI ==
    InterfaceDeclaration("I", <<Property("q", "string"), Property("r", "number")>>,
                         <<InterfaceMethod("m", <<TypeName("number")>>, NilExpr)>>,
                         <<Ident("J")>>)
ClassC ==
    ClassDeclaration("C", <<Property("p", "number"), Property("q", "string"),
                            Property("r", "number")>>,
                     <<InterfaceMethod("m", <<TypeName("number")>>, NilExpr)>>,
                     NilExpr, <<Ident("I")>>)
\* A class that declares none of the members of the interface it names.
ClassCBare == ClassDeclaration("C", <<>>, <<>>, NilExpr, <<Ident("I")>>)
EnumE      == EnumDeclaration("E", <<"A", "B">>)

CkPreludes ==
    { <<InterfaceK, InterfaceJ, InterfaceI, ClassC, EnumE>>,
      <<InterfaceK, InterfaceJ, InterfaceI, ClassCBare, EnumE>>,
      <<ClassC, InterfaceK, InterfaceJ, InterfaceI, EnumE>> }

\* Type annotations: names, structured types, and unions of two members.
CkSimpleTypes ==
    {TypeName(n) : n \in {"number", "string", "nil", "K", "J", "I", "C", "E"}}
      \cup {AstArrayType(TypeName("number")),
            AstTableType(TypeName("string"), TypeName("number")),
            AstTupleType(<<TypeName("number"), TypeName("string")>>),
            AstFunctionType(<<TypeName("number")>>, NilExpr),
            CkString(<<97>>)}
CkUnionTypes ==
    {AstUnionType(<<t, TypeName("nil")>>) : t \in CkSimpleTypes \ {TypeName("nil")}}
      \cup {AstUnionType(<<TypeName("number"), TypeName("string")>>),
            AstUnionType(<<TypeName("J"), TypeName("K")>>),
            AstUnionType(<<TypeName("number"), TypeName("number")>>),
            AstUnionType(<<AstUnionType(<<TypeName("number"), TypeName("nil")>>),
                           TypeName("nil")>>)}
CkTypes ==
    CkSimpleTypes \cup CkUnionTypes
      \cup {TypeName("any"), AstOptionalType(TypeName("number")), TypeName("T")}

\* let a: T  or  let a = 1;  then  let b: U = a
CkTypedPrograms ==
    {prelude \o <<first, Let("b", u, Ident("a"))>> :
        prelude \in CkPreludes,
        first \in {Let("a", t, NilExpr) : t \in CkTypes}
                     \cup {Let("a", NilExpr, CkNumber(1)), Let("a", NilExpr, CkString(<<97>>))},
        u \in CkTypes}

\* Expressions over a declared x and the undeclared y and z.
CkOperands    == {Ident("x"), Ident("y"), CkNumber(1)}
CkExpressions ==
    CkOperands \cup {ParsedPrefix("-", e) : e \in CkOperands}
               \cup {ParsedInfix(l, "+", r) : l, r \in CkOperands}
CkArguments   ==
    {<<>>} \cup {<<e>> : e \in CkOperands} \cup {<<l, r>> : l, r \in {Ident("z"), Ident("y"), CkNumber(1)}}

\* const x: number = 1  or  let x: number = 1;  then  x = e
CkAssignPrograms ==
    {<<first, AssignmentStatement(Ident("x"), e)>> :
        first \in {Const("x", TypeName("number"), CkNumber(1)),
                   Let("x", TypeName("number"), CkNumber(1))},
        e \in CkExpressions}

\* let x: (number) => void  or  let x: number;  then  x(arguments)
CkCallPrograms ==
    {<<first, ExpressionStatement(CallExpression(Tok("(", WordText("(")), Ident("x"), args))>> :
        first \in {Let("x", AstFunctionType(<<TypeName("number")>>, NilExpr), NilExpr),
                   Let("x", TypeName("number"), NilExpr)},
        args \in CkArguments}

\* Declarations whose members mention the declared type itself.
ClassN     == ClassDeclaration("N", <<Property("next", "N")>>, <<>>, NilExpr, <<>>)
ClassM     == ClassDeclaration("M", <<>>,
                               <<InterfaceMethod("m", <<TypeName("M")>>, TypeName("M"))>>,
                               NilExpr, <<>>)
InterfaceL == InterfaceDeclaration("L", <<Property("next", "L")>>, <<>>, <<>>)
InterfaceR == InterfaceDeclaration("R", <<>>,
                                   <<InterfaceMethod("m", <<TypeName("number")>>, TypeName("R"))>>,
                                   <<>>)
CkSelfPrograms ==
    {<<d>> : d \in {ClassN, ClassM, InterfaceL, InterfaceR}}
      \cup {<<d, e>> : d, e \in {ClassN, InterfaceL, InterfaceK}}

\* Places where the checker requires a number:
\*   let x: number = e   for i = e, 3 do end   for i = 1, 3, e do end   let a: number[]  a[e]
CkNumbers == {CkNumber(1), CkString(<<97>>), Ident("y"),
              ParsedInfix(CkNumber(1), "+", CkNumber(2)),
              ParsedInfix(CkNumber(1), "*", CkString(<<97>>)),
              ParsedPrefix("-", CkNumber(1))}
CkNumericPrograms ==
    {<<Let("x", TypeName("number"), e)>> : e \in CkNumbers}
      \cup {<<ForStatement("i", e, CkNumber(3), NilExpr, BlockStatement(<<>>))>> : e \in CkNumbers}
      \cup {<<ForStatement("i", CkNumber(1), CkNumber(3), e, BlockStatement(<<>>))>> : e \in CkNumbers}
      \cup {<<Let("a", AstArrayType(TypeName("number")), NilExpr),
              ExpressionStatement(IndexExpression(Tok("[", WordText("[")), Ident("a"), e))>> :
                e \in CkNumbers}

\* let a: number? = v
CkOptionalPrograms ==
    {<<Let("a", AstOptionalType(TypeName("number")), v)>> :
        v \in {CkNumber(1), NilLiteral(Tok("NIL", WordText("nil"))), CkString(<<97>>)}}

\* A declaration of x, then an assignment to x behind a second declaration of
\* x: in the same scope, in a block, in a function body, as a parameter or as
\* a loop variable.
CkAssignX == AssignmentStatement(Ident("x"), CkNumber(3))
CkScopes ==
    {<<second, CkAssignX>> : second \in {Let("x", TypeName("number"), CkNumber(2)),
                                          Const("x", TypeName("number"), CkNumber(2))}}
      \cup {<<DoStatement(BlockStatement(body))>> :
               body \in {<<CkAssignX>>,
                         <<Let("x", TypeName("number"), CkNumber(2)), CkAssignX>>,
                         <<Const("x", TypeName("number"), CkNumber(2)), CkAssignX>>}}
      \cup {<<DoStatement(BlockStatement(<<d>>)), CkAssignX>> :
               d \in {Let("x", TypeName("number"), CkNumber(2)),
                      Const("x", TypeName("number"), CkNumber(2))}}
      \cup {<<FunctionDeclaration("f", params, NilExpr, BlockStatement(body))>> :
               params \in {<<>>, <<Parameter("x", TypeName("number"))>>},
               body \in {<<CkAssignX>>, <<Let("x", TypeName("number"), CkNumber(2)), CkAssignX>>}}
      \cup {<<ForStatement("x", CkNumber(1), CkNumber(3), NilExpr, BlockStatement(<<CkAssignX>>))>>}
CkScopePrograms ==
    {<<first>> \o rest : first \in {Let("x", TypeName("number"), CkNumber(1)),
                                     Const("x", TypeName("number"), CkNumber(1))},
                         rest \in CkScopes}

\* A binding named like a primitive type, then  let y: P = v:
\*   function f(number: string) let y: number = 1 end
\*   let string: number = 1;  let y: string = "a"        enum string A end;  let y: string = "a"
CkPrimitiveNames == {"number", "string"}
CkValueOf(name)  == IF name = "number" THEN CkNumber(1) ELSE CkString(<<97>>)
CkOtherThan(name) == IF name = "number" THEN "string" ELSE "number"
CkShadowPrograms ==
    UNION {{ <<FunctionDeclaration("f", <<Parameter(n, TypeName(CkOtherThan(p)))>>, NilExpr,
                                   BlockStatement(<<Let("y", TypeName(p), CkValueOf(p))>>))>>,
             <<Let(n, TypeName(CkOtherThan(p)), CkValueOf(CkOtherThan(p))),
               Let("y", TypeName(p), CkValueOf(p))>>,
             <<Const(n, TypeName(CkOtherThan(p)), CkValueOf(CkOtherThan(p))),
               Let("y", TypeName(p), CkValueOf(p))>>,
             <<EnumDeclaration(n, <<"A">>), Let("y", TypeName(p), CkValueOf(p))>> } :
           n \in CkPrimitiveNames \cup {"n"}, p \in CkPrimitiveNames}

\* class Animal  v speak(): void end end   class Dog extends Animal  w speak(): void end end
CkVisibilities == {"public", "protected", "private"}
ClassAnimal(v) ==
    ClassDeclaration("Animal", <<>>, <<MethodDeclaration("speak", v, <<>>, TypeName("void"))>>,
                     NilExpr, <<>>)
ClassDog(w) ==
    Subclass(ClassDeclaration("Dog", <<>>,
                              <<MethodDeclaration("speak", w, <<>>, TypeName("void"))>>,
                              NilExpr, <<>>),
             Ident("Animal"))
CkOverridePrograms == {<<ClassAnimal(v), ClassDog(w)>> : v, w \in CkVisibilities}

CkPrograms ==
    CkOverridePrograms \cup CkTypedPrograms \cup CkAssignPrograms \cup CkCallPrograms \cup CkSelfPrograms
      \cup CkNumericPrograms \cup CkOptionalPrograms \cup CkScopePrograms \cup CkShadowPrograms

RECURSIVE registerAll(_, _)
RECURSIVE checkAll(_, _)
\* The loops of Check; c.line is the position of the statement last visited.
registerAll(c, stmts) ==
    IF c.line >= Len(stmts) THEN c
    ELSE registerAll(registerTypeDefinition([c EXCEPT !.line = @ + 1], stmts[c.line + 1]), stmts)
checkAll(c, stmts) ==
    IF c.line >= Len(stmts) THEN c
    ELSE checkAll(checkStatement([c EXCEPT !.line = @ + 1], stmts[c.line + 1]), stmts)
\* Check(statements) with a new checker: the errors it returns.
Check(order, stmts) ==
    LET registered == registerAll([NewChecker EXCEPT !.order = order], stmts)
    IN  checkAll([registered EXCEPT !.line = 0], stmts).errors

CkIdle ==
    /\ ckPc = "idle"
    /\ statements = <<>>
    /\ ckIndex = 0
    /\ checker = NewChecker

CkInit ==
    /\ ckPc = "register"
    /\ statements \in CkPrograms
    /\ ckIndex = 1
    /\ \E order \in GenOrders : checker = [NewChecker EXCEPT !.order = order]

\* One iteration of the first loop of Check.
RegisterTypeDefinition ==
    /\ ckPc = "register"
    /\ checker' = registerTypeDefinition([checker EXCEPT !.line = ckIndex], statements[ckIndex])
    /\ IF ckIndex < Len(statements)
       THEN ckIndex' = ckIndex + 1 /\ ckPc' = ckPc
       ELSE ckIndex' = 1 /\ ckPc' = "check"
    /\ UNCHANGED <<statements, ckOthers>>

\* One iteration of the second loop of Check; after the last, Check returns c.errors.
CheckStatement ==
    /\ ckPc = "check"
    /\ checker' = checkStatement([checker EXCEPT !.line = ckIndex], statements[ckIndex])
    /\ IF ckIndex < Len(statements)
       THEN ckIndex' = ckIndex + 1 /\ ckPc' = ckPc
       ELSE ckIndex' = ckIndex /\ ckPc' = "done"
    /\ UNCHANGED <<statements, ckOthers>>

(***************************************************************************)
(* optimizer.go: statements.  The optimizer rewrites the nodes in place;   *)
(* here each function returns the node as it is afterwards.  For loops,    *)
(* which optimizeStatement handles like while loops, are not modelled.     *)
(***************************************************************************)
RECURSIVE optimizeStatement(_)
RECURSIVE optimizeBlock(_)
RECURSIVE optimizeBlockLoop(_, _)

optimizeIfStatement(node) ==
    LET condition == optimizeExpression(node.Condition)
    IN  IF IsNode(condition, "BooleanLiteral")
        THEN IF condition.Bool THEN BlockStatement(node.Consequence.Statements)
             ELSE IF node.Alternative # NilExpr
                  THEN BlockStatement(node.Alternative.Statements)
                  ELSE NilExpr
        ELSE [node EXCEPT !.Condition   = condition,
                          !.Consequence = optimizeBlock(@),
                          !.Alternative = IF @ = NilExpr THEN @ ELSE optimizeBlock(@)]

optimizeStatement(stmt) ==
    CASE stmt = NilExpr -> NilExpr
      [] IsNode(stmt, "VariableDeclaration") ->
            [stmt EXCEPT !.Value = IF @ = NilExpr THEN @ ELSE optimizeExpression(@)]
      [] IsNode(stmt, "ReturnStatement") ->
            [stmt EXCEPT !.ReturnValue = IF @ = NilExpr THEN @ ELSE optimizeExpression(@)]
      [] IsNode(stmt, "ExpressionStatement") ->
            [stmt EXCEPT !.Expression = optimizeExpression(@)]
      [] IsNode(stmt, "AssignmentStatement") ->
            [stmt EXCEPT !.Value = optimizeExpression(@)]
      [] IsNode(stmt, "IfStatement") -> optimizeIfStatement(stmt)
      [] IsNode(stmt, "WhileStatement") ->
            [stmt EXCEPT !.Condition = optimizeExpression(@), !.Body = optimizeBlock(@)]
      [] IsNode(stmt, "BlockStatement") -> optimizeBlock(stmt)
      [] OTHER -> stmt

\* The loop of optimizeBlock from statement i on, while the code is reachable.
optimizeBlockLoop(stmts, i) ==
    IF i > Len(stmts) THEN <<>>
    ELSE LET opt == optimizeStatement(stmts[i])
         IN  IF opt = NilExpr THEN optimizeBlockLoop(stmts, i + 1)
             ELSE IF stmts[i].node \in {"ReturnStatement", "BreakStatement"} THEN <<opt>>
             ELSE <<opt>> \o optimizeBlockLoop(stmts, i + 1)

optimizeBlock(block) ==
    IF block = NilExpr THEN NilExpr
    ELSE [block EXCEPT !.Statements = optimizeBlockLoop(@, 1)]

\* Optimizer.OptimizeStatements of an enabled optimizer.
optimizeStatements(stmts) ==
    LET optimized == [i \in 1..Len(stmts) |-> optimizeStatement(stmts[i])]
    IN  SelectSeq(optimized, LAMBDA opt : opt # NilExpr)

(***************************************************************************)
(* generator.go: statements.  The text of a statement is the sequence of   *)
(* its lines (each ends with a newline in the code), a line the sequence   *)
(* of its lexemes; the indentation in front of a line is left out.  A      *)
(* function returns the generator, whose classes it may extend, with the   *)
(* lines.                                                                  *)
(***************************************************************************)
Generated(g, lines) == [g |-> g, lines |-> lines]
NewGenerator == [classes |-> {}, order |-> InOrder]
BlankLine == <<>>

\* strings.Join of the parameters' names.
parameterNames(parameters) ==
    JoinComma([i \in 1..Len(parameters) |-> W(parameters[i].Name)])

RECURSIVE generateStatement(_, _)
RECURSIVE generateStatementList(_, _, _)
RECURSIVE generateMethods(_, _, _)

\* for _, stmt := range stmts { output.WriteString(g.generateStatement(stmt)) }, from i on
generateStatementList(g, stmts, i) ==
    IF i > Len(stmts) THEN Generated(g, <<>>)
    ELSE LET first == generateStatement(g, stmts[i])
             rest  == generateStatementList(first.g, stmts, i + 1)
         IN  Generated(rest.g, first.lines \o rest.lines)

generateVariableDeclaration(g, node) ==
    Generated(g, << W("local") \o W(node.Name)
                    \o (IF node.Value # NilExpr
                        THEN W("=") \o generateExpression(g, node.Value) ELSE <<>>) >>)

generateFunctionDeclaration(g, node) ==
    LET body == generateStatementList(g, node.Body.Statements, 1)
    IN  Generated(body.g,
                  << W("function") \o W(node.Name) \o W("(")
                     \o parameterNames(node.Parameters) \o W(")") >>
                  \o body.lines \o << W("end") >>)

generateReturnStatement(g, node) ==
    Generated(g, << W("return") \o (IF node.ReturnValue # NilExpr
                                    THEN generateExpression(g, node.ReturnValue) ELSE <<>>) >>)

generateIfStatement(g, node) ==
    LET consequence == generateStatementList(g, node.Consequence.Statements, 1)
        alternative == IF node.Alternative = NilExpr THEN Generated(consequence.g, <<>>)
                       ELSE generateStatementList(consequence.g, node.Alternative.Statements, 1)
    IN  Generated(alternative.g,
                  << W("if") \o generateExpression(g, node.Condition) \o W("then") >>
                  \o consequence.lines
                  \o (IF node.Alternative = NilExpr THEN <<>>
                      ELSE << W("else") >> \o alternative.lines)
                  \o << W("end") >>)

generateWhileStatement(g, node) ==
    LET body == generateStatementList(g, node.Body.Statements, 1)
    IN  Generated(body.g,
                  << W("while") \o generateExpression(g, node.Condition) \o W("do") >>
                  \o body.lines \o << W("end") >>)

generateDoStatement(g, node) ==
    LET body == generateStatementList(g, node.Body.Statements, 1)
    IN  Generated(body.g, << W("do") >> \o body.lines \o << W("end") >>)

generateBlockStatement(g, node) == generateStatementList(g, node.Statements, 1)

generateAssignmentStatement(g, node) ==
    Generated(g, << generateExpression(g, node.Name) \o W("=")
                    \o generateExpression(g, node.Value) >>)

\* The methods of a class from method i on.
generateMethods(g, node, i) ==
    IF i > Len(node.Methods) THEN Generated(g, <<>>)
    ELSE LET method == node.Methods[i]
             body   == generateStatementList(g, method.Body.Statements, 1)
             rest   == generateMethods(body.g, node, i + 1)
         IN  Generated(rest.g,
                       << W("function") \o W(node.Name) \o W(":") \o W(method.Name) \o W("(")
                          \o parameterNames(method.Parameters) \o W(")") >>
                       \o body.lines \o << W("end"), BlankLine >> \o rest.lines)

generateClassDeclaration(g, node) ==
    LET className   == node.Name
        tracked     == [g EXCEPT !.classes = @ \cup {className}]
        constructor ==
            IF node.Constructor = NilExpr THEN Generated(tracked, <<>>)
            ELSE LET body == generateStatementList(tracked, node.Constructor.Body.Statements, 1)
                 IN  Generated(body.g,
                        << W("function") \o W(className) \o W(".") \o W("new") \o W("(")
                           \o parameterNames(node.Constructor.Parameters) \o W(")"),
                           W("local") \o W("self") \o W("=") \o W("setmetatable") \o W("(")
                           \o W("{") \o W("}") \o W(",") \o W(className) \o W(")") >>
                        \o body.lines
                        \o << W("return") \o W("self"), W("end"), BlankLine >>)
        methods     == generateMethods(constructor.g, node, 1)
    IN  Generated(methods.g,
                  << W("local") \o W(className) \o W("=") \o W("{") \o W("}"),
                     W(className) \o W(".") \o W("__index") \o W("=") \o W(className),
                     BlankLine >>
                  \o constructor.lines \o methods.lines)

\* Enums, exports and imports are not modelled; interfaces and type aliases
\* generate no code.
generateStatement(g, stmt) ==
    CASE stmt = NilExpr -> Generated(g, <<>>)
      [] IsNode(stmt, "VariableDeclaration") -> generateVariableDeclaration(g, stmt)
      [] IsNode(stmt, "FunctionDeclaration") -> generateFunctionDeclaration(g, stmt)
      [] IsNode(stmt, "ExpressionStatement") ->
            Generated(g, << generateExpression(g, stmt.Expression) >>)
      [] IsNode(stmt, "ReturnStatement")     -> generateReturnStatement(g, stmt)
      [] IsNode(stmt, "IfStatement")         -> generateIfStatement(g, stmt)
      [] IsNode(stmt, "WhileStatement")      -> generateWhileStatement(g, stmt)
      [] IsNode(stmt, "DoStatement")         -> generateDoStatement(g, stmt)
      [] IsNode(stmt, "BreakStatement")      -> Generated(g, << W("break") >>)
      [] IsNode(stmt, "BlockStatement")      -> generateBlockStatement(g, stmt)
      [] IsNode(stmt, "AssignmentStatement") -> generateAssignmentStatement(g, stmt)
      [] IsNode(stmt, "ClassDeclaration")    -> generateClassDeclaration(g, stmt)
      [] OTHER -> Generated(g, <<>>)

RECURSIVE GenerateLoop(_, _, _)
\* The loop of Generator.Generate from statement i on: the code of each
\* statement and, unless it is empty or the last, a blank line.
GenerateLoop(g, stmts, i) ==
    IF i > Len(stmts) THEN <<>>
    ELSE LET code == generateStatement(g, stmts[i])
         IN  code.lines
             \o (IF code.lines # <<>> /\ i < Len(stmts) THEN << BlankLine >> ELSE <<>>)
             \o GenerateLoop(code.g, stmts, i + 1)

\* GenerateWithOptions(statements, optimize), given the optimizer's result.
GenerateStatements(stmts) == GenerateLoop(NewGenerator, stmts, 1)

(***************************************************************************)
(* GenerateWithOptions on a statement list: the optimizer when asked for,  *)
(* then the generator.  The programs hold no arithmetic, so that           *)
(* optimizeExpression does not abort.                                      *)
(***************************************************************************)
PgUseX   == ExpressionStatement(CallExpression(Tok("(", WordText("(")), Ident("print"),
                                               <<Ident("x")>>))
PgLocalX(i) == Let("x", NilExpr, CkNumber(i))
\* C()
PgNewC   == ExpressionStatement(ParsedCall("C"))

PgBodies ==
    {<<>>, <<PgLocalX(1)>>, <<PgLocalX(1), PgUseX>>, <<PgNewC>>,
     <<ReturnStatement(NilExpr), PgUseX>>, <<PgUseX, ReturnStatement(Ident("x"))>>,
     <<BreakStatement, PgUseX>>}
PgConditions == {ParsedBoolean(TRUE), ParsedBoolean(FALSE), Ident("x")}
PgOther == BlockStatement(<<PgLocalX(2)>>)

\* A class with a constructor and a method m of the given body.
PgClass(body) ==
    ClassDeclaration("C", <<>>, <<FunctionDeclaration("m", <<>>, NilExpr, BlockStatement(body))>>,
                     ConstructorDeclaration(<<Parameter("x", NilExpr)>>, BlockStatement(body)),
                     <<>>)

\* The statements with a block of the given body.
PgCompounds(body) ==
    LET block == BlockStatement(body)
    IN  {IfStatement(c, block, NilExpr) : c \in PgConditions}
          \cup {IfStatement(c, block, PgOther) : c \in PgConditions}
          \cup {IfStatement(c, PgOther, block) : c \in PgConditions}
          \cup {WhileStatement(Ident("x"), block), DoStatement(block),
                FunctionDeclaration("f", <<>>, NilExpr, block), PgClass(body),
                WhileStatement(Ident("x"),
                    BlockStatement(<<IfStatement(ParsedBoolean(TRUE), block, NilExpr),
                                     PgUseX>>))}

PgPrograms ==
    {before \o <<compound>> \o after :
        before \in {<<>>, <<PgLocalX(0)>>},
        compound \in UNION {PgCompounds(body) : body \in PgBodies},
        after \in {<<>>, <<PgUseX>>}}
      \cup {<<PgClass(<<>>), PgNewC>>, <<PgNewC, PgClass(<<>>)>>,
            <<FunctionDeclaration("f", <<>>, NilExpr, BlockStatement(<<PgNewC>>)), PgClass(<<>>), PgNewC>>}

PgIdle ==
    /\ pgPc = "idle"
    /\ pgStatements = <<>>
    /\ pgOptimize = FALSE
    /\ pgOptimized = <<>>
    /\ pgEmitted = <<>>

PgInit ==
    /\ pgPc = "parsed"
    /\ pgStatements \in PgPrograms
    /\ pgOptimize \in BOOLEAN
    /\ pgOptimized = <<>>
    /\ pgEmitted = <<>>

\* if optimize { statements = optimizer.OptimizeStatements(statements) }
PgOptimize ==
    /\ pgPc = "parsed"
    /\ pgOptimized' = IF pgOptimize THEN optimizeStatements(pgStatements) ELSE pgStatements
    /\ pgPc' = "optimized"
    /\ UNCHANGED <<pgStatements, pgOptimize, pgEmitted>>
    /\ UNCHANGED pgOthers

\* return generator.Generate(statements)
PgGenerate ==
    /\ pgPc = "optimized"
    /\ pgEmitted' = GenerateStatements(pgOptimized)
    /\ pgPc' = "generated"
    /\ UNCHANGED <<pgStatements, pgOptimize, pgOptimized>>
    /\ UNCHANGED pgOthers

(***************************************************************************)
(* lexer.go, byte by byte.  The lexer l is the struct Lexer: the input (a  *)
(* sequence of bytes; Go counts its positions from 0), position,           *)
(* readPosition, ch, line and column.  A function that reads returns the   *)
(* lexer as it is afterwards, with its result where it has one.            *)
(***************************************************************************)
CharNul        == 0
CharTab        == 9
CharNewline    == 10
CharReturn     == 13
CharSpace      == 32
CharQuote      == 34
CharLParen     == 40
CharRParen     == 41
CharMinus      == 45
CharDot        == 46
CharColon      == 58
CharEquals     == 61
CharLBracket   == 91
CharBackslash  == 92
CharRBracket   == 93
CharUnderscore == 95
CharLowerN     == 110
CharLowerR     == 114
CharLowerT     == 116

Token(type, literal, line, column) ==
    [Type |-> type, Literal |-> literal, Line |-> line, Column |-> column]

readChar(l) ==
    LET ch == IF l.readPosition >= Len(l.input) THEN CharNul
              ELSE l.input[l.readPosition + 1]
    IN  [l EXCEPT !.ch = ch,
                  !.position = l.readPosition,
                  !.readPosition = l.readPosition + 1,
                  !.column = IF ch = CharNewline THEN 0 ELSE l.column + 1]

New(input) ==
    readChar([input |-> input, position |-> 0, readPosition |-> 0, ch |-> CharNul,
              line |-> 1, column |-> 0])

peekChar(l) ==
    IF l.readPosition >= Len(l.input) THEN CharNul ELSE l.input[l.readPosition + 1]

newToken(tokenType, ch, line, column) == Token(tokenType, <<ch>>, line, column)

isLetter(ch) ==
    \/ CharLowerA <= ch /\ ch <= CharLowerZ
    \/ CharUpperA <= ch /\ ch <= CharUpperZ
    \/ ch = CharUnderscore

isDigit(ch) == CharZero <= ch /\ ch <= CharNine

\* l.input[from:to]; Go aborts the program when the bounds are out of range.
SliceInRange(l, from, to) == 0 <= from /\ from <= to /\ to <= Len(l.input)
Slice(l, from, to) == SubSeq(l.input, from + 1, to)

RECURSIVE skipSingleLineComment(_)
skipSingleLineComment(l) ==
    IF l.ch # CharNewline /\ l.ch # CharNul THEN skipSingleLineComment(readChar(l)) ELSE l

RECURSIVE skipMultiLineLoop(_)
\* The loop of skipMultiLineComment.
skipMultiLineLoop(l) ==
    IF l.ch = CharNul THEN l
    ELSE IF l.ch = CharRBracket /\ peekChar(l) = CharRBracket THEN readChar(readChar(l))
    ELSE skipMultiLineLoop(readChar(IF l.ch = CharNewline
                                    THEN [l EXCEPT !.line = @ + 1, !.column = 0]
                                    ELSE l))

skipMultiLineComment(l) == skipMultiLineLoop(readChar(l))

skipComment(l) ==
    IF l.ch = CharMinus /\ peekChar(l) = CharMinus
    THEN LET past == readChar(readChar(l))
         IN  IF past.ch = CharLBracket /\ peekChar(past) = CharLBracket
             THEN skipMultiLineComment(readChar(past))
             ELSE skipSingleLineComment(past)
    ELSE l

RECURSIVE skipWhitespace(_)
skipWhitespace(l) ==
    CASE l.ch \in {CharSpace, CharTab, CharReturn} -> skipWhitespace(readChar(l))
      [] l.ch = CharNewline -> skipWhitespace(readChar([l EXCEPT !.line = @ + 1]))
      [] l.ch = CharMinus ->
            IF peekChar(l) = CharMinus
            THEN LET skipped == skipComment(l)
                 IN  skipWhitespace(IF skipped.ch = CharNewline
                                    THEN readChar([skipped EXCEPT !.line = @ + 1])
                                    ELSE skipped)
            ELSE l
      [] OTHER -> l

\* What a read function returns: the lexer afterwards, the string, and whether
\* the slice of the input it returns was in range.
Read(l, literal, ok) == [l |-> l, literal |-> literal, ok |-> ok]

RECURSIVE readIdentifierLoop(_)
readIdentifierLoop(l) ==
    IF isLetter(l.ch) \/ isDigit(l.ch) THEN readIdentifierLoop(readChar(l)) ELSE l

readIdentifier(l) ==
    LET after == readIdentifierLoop(l)
    IN  Read(after, Slice(l, l.position, after.position),
             SliceInRange(l, l.position, after.position))

RECURSIVE readDigits(_)
\* "for isDigit(l.ch) { l.readChar() }"
readDigits(l) == IF isDigit(l.ch) THEN readDigits(readChar(l)) ELSE l

readNumber(l) ==
    LET whole == readDigits(l)
        after == IF whole.ch = CharDot /\ isDigit(peekChar(whole))
                 THEN readDigits(readChar(whole))
                 ELSE whole
    IN  Read(after, Slice(l, l.position, after.position),
             SliceInRange(l, l.position, after.position))

\* The character an escape sequence stands for.
Unescaped(ch) ==
    CASE ch = CharLowerN -> CharNewline
      [] ch = CharLowerT -> CharTab
      [] ch = CharLowerR -> CharReturn
      [] OTHER -> ch

RECURSIVE LexerReadStringLoop(_, _, _)
\* The loop of readString; it is left at the closing quote or at a NUL.
LexerReadStringLoop(l, escapeNext, result) ==
    LET next == readChar(l)
    IN  IF next.ch = CharNul THEN Read(next, result, TRUE)
        ELSE IF escapeNext
        THEN LexerReadStringLoop(next, FALSE, Append(result, Unescaped(next.ch)))
        ELSE IF next.ch = CharBackslash THEN LexerReadStringLoop(next, TRUE, result)
        ELSE IF next.ch = CharQuote THEN Read(next, result, TRUE)
        ELSE LexerReadStringLoop(next, FALSE, Append(result, next.ch))

\* readString of the lexer (the characters between the quotes, escapes resolved).
LexerReadString(l) == LexerReadStringLoop(l, FALSE, <<>>)

\* LookupIdent on the bytes of a word; of the keywords, the letters d and o
\* of the model's inputs spell "do".
LexerLookupIdent(literal) == IF literal = <<100, 111>> THEN "do" ELSE "IDENT"

\* NextToken: the lexer afterwards, the token, whether the call returned (it
\* aborts when a slice is out of range), and start, the value of l.position
\* when tok.Line and tok.Column are filled in: the token's first byte.
LexerNextToken(l) ==
    LET at    == skipWhitespace(l)
        one(type) == [l |-> readChar(at), ok |-> TRUE, start |-> at.position,
                      tok |-> newToken(type, at.ch, at.line, at.column)]
    IN  CASE at.ch = CharQuote ->
               LET str == LexerReadString(at)
               IN  [l |-> readChar(str.l), ok |-> str.ok, start |-> at.position,
                    tok |-> Token("STRING", str.literal, at.line, at.column)]
          [] at.ch = CharEquals -> one("=")
          [] at.ch = CharColon  -> one(":")
          [] at.ch = CharLParen -> one("(")
          [] at.ch = CharRParen -> one(")")
          [] at.ch = CharComma  -> one(",")
          [] at.ch = CharNul ->
               [l |-> readChar(at), ok |-> TRUE, start |-> at.position,
                tok |-> Token("EOF", <<>>, at.line, at.column)]
          [] OTHER ->
               IF isLetter(at.ch)
               THEN LET word == readIdentifier(at)
                    IN  [l |-> word.l, ok |-> word.ok, start |-> at.position,
                         tok |-> Token(LexerLookupIdent(word.literal), word.literal,
                                       at.line, at.column)]
               ELSE IF isDigit(at.ch)
               THEN LET number == readNumber(at)
                    IN  [l |-> readChar(number.l), ok |-> number.ok, start |-> at.position,
                         tok |-> Token("NUMBER", number.literal, at.line, at.column)]
               ELSE one("ILLEGAL")

(***************************************************************************)
(* A caller of the lexer: New(input), then NextToken again and again, also *)
(* after the EOF token.  The inputs are made of up to MaxPieces pieces.    *)
(***************************************************************************)
\* The letters a, b, d and o are the bytes 97, 98, 100 and 111, the digit 1 is
\* 49 and @, a byte the lexer has no token for, is 64.
LxPieces ==
    { <<CharQuote, CharLowerA, CharNewline, 98, CharQuote>>,   \* a string of two lines
      <<CharQuote, CharLowerA>>,                               \* a string that is not closed
      <<CharQuote, CharBackslash, CharQuote>>,                 \* an escaped quote
      <<CharQuote, CharBackslash, CharLowerN, CharQuote>>,     \* an escaped n
      <<CharMinus, CharMinus, CharLBracket, CharLBracket>>,    \* a block comment, not closed
      <<CharMinus, CharMinus, CharLBracket, CharLBracket, CharNewline,
        CharRBracket, CharRBracket>>,                          \* a block comment of two lines
      <<CharMinus, CharMinus, 100, CharNewline>>,              \* a comment to the end of the line
      <<CharMinus>>, <<49>>, <<49, CharDot, 49>>, <<CharDot>>,
      <<100>>, <<111>>, <<CharLParen>>, <<CharRParen>>,
      <<CharSpace>>, <<CharNewline>>, <<64>>, <<CharNul>> }

RECURSIVE LxJoin(_)
LxJoin(pieces) == IF pieces = <<>> THEN <<>> ELSE Head(pieces) \o LxJoin(Tail(pieces))

LxInputs == {LxJoin(pieces) : pieces \in UNION {[1..n -> LxPieces] : n \in 0..MaxPieces}}

LxIdle ==
    /\ lxPc = "idle"
    /\ lexer = New(<<>>)
    /\ lxTokens = <<>>
    /\ lxStarts = <<>>

LxInit ==
    /\ lxPc = "lexing"
    /\ \E input \in LxInputs : lexer = New(input)
    /\ lxTokens = <<>>
    /\ lxStarts = <<>>

\* One call of NextToken.  A call that slices the input out of range aborts
\* the program and returns nothing.
LxNextToken ==
    /\ lxPc = "lexing"
    /\ Len(lxTokens) < Len(lexer.input) + 1 + MaxCallsAfterEOF
    /\ LET next == LexerNextToken(lexer)
       IN  /\ next.ok
           /\ lexer' = next.l
           /\ lxTokens' = Append(lxTokens, next.tok)
           /\ lxStarts' = Append(lxStarts, next.start)
    /\ UNCHANGED <<lxPc, lxOthers>>

(***************************************************************************)
(* parser.go: type annotations, variable declarations and Parse.  A parse  *)
(* function returns the node (or nil), the position it stopped at, the     *)
(* number of errors it reported, and whether it aborted: Go's type         *)
(* assertion of x to *ast.Identifier is a run-time panic when x holds any  *)
(* other node or nil, and no function of the parser recovers from a panic. *)
(***************************************************************************)
AstGenericType(baseType, typeArguments) ==
    [node |-> "GenericType", BaseType |-> baseType, TypeArguments |-> typeArguments]

TypeParsed(exp, pos, errors, aborted) ==
    [exp |-> exp, pos |-> pos, errors |-> errors, aborted |-> aborted]
\* What a parse function of expressions returned, none of which aborts.
Returned(parsed) == TypeParsed(parsed.exp, parsed.pos, parsed.errors, FALSE)
\* The panic of a failed type assertion, with the errors reported before it.
Aborted(pos, errors) == TypeParsed(Panic, pos, errors, TRUE)
\* A panic in a call unwinds the caller; otherwise the caller goes on with
\* what the call returned.
Then(result, Continue(_)) == IF result.aborted THEN result ELSE Continue(result)
\* The type assertion of a node to *ast.Identifier succeeds.
IsIdentifier(exp) == exp.node = "Identifier"

RECURSIVE parseType(_, _)
RECURSIVE parseTypeList(_, _)
RECURSIVE parseTypeSuffixLoop(_, _, _)
RECURSIVE parseUnionLoop(_, _)
RECURSIVE parseNonUnionType(_, _)
RECURSIVE parseNonUnionLoop(_, _, _)
RECURSIVE parseTableType(_, _)
RECURSIVE parseTupleOrFunctionType(_, _)
RECURSIVE parseParameterList(_, _)

\* for p.peekTokenIs(lexer.COMMA): the types after the first of a list.  acc
\* holds the types so far in exp.
parseTypeList(toks, acc) ==
    IF peekToken(toks, acc.pos).Type # "," THEN acc
    ELSE Then(parseType(toks, acc.pos + 2),
              LAMBDA next : parseTypeList(toks,
                  TypeParsed(Append(acc.exp, next.exp), next.pos,
                             acc.errors + next.errors, FALSE)))

\* The type arguments of T<U, ...>, the parser standing before the '<'.
parseTypeArguments(toks, pos) ==
    Then(parseType(toks, pos + 2),
         LAMBDA first : parseTypeList(toks,
             TypeParsed(<<first.exp>>, first.pos, first.errors, FALSE)))

\* for p.peekTokenIs(lexer.PIPE): the members of a union after the first.  acc
\* holds the members so far in exp; a nil member is left out.
parseUnionLoop(toks, acc) ==
    IF peekToken(toks, acc.pos).Type # "|" THEN acc
    ELSE Then(parseNonUnionType(toks, acc.pos + 2),
              LAMBDA nextType : parseUnionLoop(toks,
                  TypeParsed(IF nextType.exp = NilExpr THEN acc.exp
                             ELSE Append(acc.exp, nextType.exp),
                             nextType.pos, acc.errors + nextType.errors, FALSE)))

\* checkUnion, the second pass of parseTypeSuffix.  cur holds currentType in exp.
checkUnion(toks, cur) ==
    IF peekToken(toks, cur.pos).Type = "|"
    THEN Then(parseUnionLoop(toks, TypeParsed(<<cur.exp>>, cur.pos, cur.errors, FALSE)),
              LAMBDA types : TypeParsed(AstUnionType(types.exp), types.pos, types.errors,
                                        FALSE))
    ELSE cur

\* The array suffix T[], the parser standing before the '['.  fails: the type
\* assertion that yields the node's token fails.  The result holds the new
\* currentType, or nil where the function returns nil.
arraySuffix(toks, cur, fails) ==
    LET close == expectPeek(toks, cur.pos + 1, "]")
    IN  IF ~close.ok THEN TypeParsed(NilExpr, close.pos, cur.errors + close.errors, FALSE)
        ELSE IF fails THEN Aborted(close.pos, cur.errors)
        ELSE TypeParsed(AstArrayType(cur.exp), close.pos, cur.errors, FALSE)

\* The generic suffix T<U> after its type arguments.
genericSuffix(toks, baseType, cur, args) ==
    LET close == expectPeek(toks, args.pos, ">")
        errs  == cur.errors + args.errors
    IN  IF ~close.ok THEN TypeParsed(NilExpr, close.pos, errs + close.errors, FALSE)
        ELSE IF ~IsIdentifier(baseType) THEN Aborted(close.pos, errs)
        ELSE TypeParsed(AstGenericType(baseType, args.exp), close.pos, errs, FALSE)

\* The optional suffix T?.
optionalSuffix(cur) == TypeParsed(AstOptionalType(cur.exp), cur.pos + 1, cur.errors, FALSE)

\* After one suffix: a panic unwinds, nil is returned at once, otherwise the
\* loop goes on with the new currentType.
GoOn(next, Loop(_)) == IF next.aborted \/ next.exp = NilExpr THEN next ELSE Loop(next)

\* The first pass of parseTypeSuffix: arrays, generics, optional.  cur holds
\* currentType in exp.
parseTypeSuffixLoop(toks, baseType, cur) ==
    LET peek == peekToken(toks, cur.pos).Type
    IN  CASE peek = "[" ->
               GoOn(arraySuffix(toks, cur, ~IsIdentifier(baseType)),
                    LAMBDA next : parseTypeSuffixLoop(toks, baseType, next))
          [] peek = "<" ->
               Then(parseTypeArguments(toks, cur.pos),
                    LAMBDA args : GoOn(genericSuffix(toks, baseType, cur, args),
                        LAMBDA next : parseTypeSuffixLoop(toks, baseType, next)))
          [] peek = "?" -> parseTypeSuffixLoop(toks, baseType, optionalSuffix(cur))
          [] OTHER -> checkUnion(toks, cur)

\* parseTypeSuffix(baseType), the parser standing on the last token of base.
parseTypeSuffix(toks, base) == parseTypeSuffixLoop(toks, base.exp, base)

\* The loop of parseNonUnionType: the same suffixes, the array without a type
\* assertion, and no union pass.
parseNonUnionLoop(toks, typeExpr, cur) ==
    LET peek == peekToken(toks, cur.pos).Type
    IN  CASE peek = "[" ->
               GoOn(arraySuffix(toks, cur, FALSE),
                    LAMBDA next : parseNonUnionLoop(toks, typeExpr, next))
          [] peek = "<" ->
               Then(parseTypeArguments(toks, cur.pos),
                    LAMBDA args : GoOn(genericSuffix(toks, typeExpr, cur, args),
                        LAMBDA next : parseNonUnionLoop(toks, typeExpr, next)))
          [] peek = "?" -> parseNonUnionLoop(toks, typeExpr, optionalSuffix(cur))
          [] OTHER -> cur

\* The switch of parseType and of parseNonUnionType but for '(': typeExpr is a
\* table type, a literal type, a type name, or the function returns nil.
TypeNames == {"IDENT", "string", "number", "boolean", "any", "void", "nil"}
HasBaseType(type) == type \in {"table", "STRING", "NUMBER"} \cup TypeNames
parseBaseType(toks, pos) ==
    LET tok == curToken(toks, pos)
    IN  CASE tok.Type = "table"  -> parseTableType(toks, pos)
          [] tok.Type = "STRING" ->
               TypeParsed(StringLiteral(tok, tok.Literal.raw), pos, 0, FALSE)
          [] tok.Type = "NUMBER" ->
               TypeParsed(NumberLiteral(tok, ParseFloat(tok.Literal)), pos, 0, FALSE)
          [] tok.Type \in TypeNames -> TypeParsed(Identifier(tok), pos, 0, FALSE)

parseType(toks, pos) ==
    LET type == curToken(toks, pos).Type
    IN  IF type = "(" THEN parseTupleOrFunctionType(toks, pos)
        ELSE IF ~HasBaseType(type) THEN TypeParsed(NilExpr, pos, 0, FALSE)
        ELSE Then(parseBaseType(toks, pos),
                  LAMBDA typeExpr : parseTypeSuffix(toks, typeExpr))

parseNonUnionType(toks, pos) ==
    LET type == curToken(toks, pos).Type
    IN  IF type = "(" THEN parseTupleOrFunctionType(toks, pos)
        ELSE IF ~HasBaseType(type) THEN TypeParsed(NilExpr, pos, 0, FALSE)
        ELSE Then(parseBaseType(toks, pos),
                  LAMBDA typeExpr : parseNonUnionLoop(toks, typeExpr.exp, typeExpr))

\* The value type of table<K, V> and the closing '>', after the comma.
tableValueType(toks, keyType, comma) ==
    Then(parseType(toks, comma.pos + 1),
         LAMBDA valueType :
             LET close == expectPeek(toks, valueType.pos, ">")
                 errs  == keyType.errors + valueType.errors
             IN  IF ~close.ok
                 THEN TypeParsed(NilExpr, close.pos, errs + close.errors, FALSE)
                 ELSE TypeParsed(AstTableType(keyType.exp, valueType.exp), close.pos,
                                 errs, FALSE))

\* table<K, V>, the parser standing on table.
parseTableType(toks, pos) ==
    LET open == expectPeek(toks, pos, "<")
    IN  IF ~open.ok THEN TypeParsed(NilExpr, open.pos, open.errors, FALSE)
        ELSE Then(parseType(toks, open.pos + 1),
                  LAMBDA keyType :
                      LET comma == expectPeek(toks, keyType.pos, ",")
                      IN  IF ~comma.ok
                          THEN TypeParsed(NilExpr, comma.pos,
                                          keyType.errors + comma.errors, FALSE)
                          ELSE tableValueType(toks, keyType, comma))

\* parseParameter: any token is the name; the node stands here as the
\* parameter's type expression, nil without an annotation.
parseParameter(toks, pos) ==
    IF peekToken(toks, pos).Type = ":" THEN parseType(toks, pos + 2)
    ELSE TypeParsed(NilExpr, pos, 0, FALSE)

\* for p.peekTokenIs(lexer.COMMA): the parameters after the first.
parseParameterList(toks, acc) ==
    IF peekToken(toks, acc.pos).Type # "," THEN acc
    ELSE Then(parseParameter(toks, acc.pos + 2),
              LAMBDA next : parseParameterList(toks,
                  TypeParsed(Append(acc.exp, next.exp), next.pos,
                             acc.errors + next.errors, FALSE)))

\* What follows the parameter-like list: '=>' and a return type make a
\* function type, no parameters make the empty tuple, anything else is nil.
parseArrow(toks, params) ==
    IF peekToken(toks, params.pos).Type = "=>"
    THEN Then(parseType(toks, params.pos + 2),
              LAMBDA returnType :
                  TypeParsed(AstFunctionType(params.exp, returnType.exp), returnType.pos,
                             params.errors + returnType.errors, FALSE))
    ELSE IF params.exp = <<>>
    THEN TypeParsed(AstTupleType(<<>>), params.pos, params.errors, FALSE)
    ELSE TypeParsed(NilExpr, params.pos, params.errors, FALSE)

\* The closing ')' of a list of parameters or types: named parameters and
\* types followed by '=>' go on to the arrow, other types are a tuple.
closeList(toks, isNamedParam, list) ==
    LET close == expectPeek(toks, list.pos, ")")
    IN  IF ~close.ok THEN TypeParsed(NilExpr, close.pos, list.errors + close.errors, FALSE)
        ELSE IF isNamedParam \/ peekToken(toks, close.pos).Type = "=>"
        THEN parseArrow(toks, TypeParsed(list.exp, close.pos, list.errors, FALSE))
        ELSE TypeParsed(AstTupleType(list.exp), close.pos, list.errors, FALSE)

\* The parameters or types between the parentheses, the parser standing on
\* the first token of the first.
parseList(toks, pos, isNamedParam) ==
    Then(IF isNamedParam THEN parseParameter(toks, pos) ELSE parseType(toks, pos),
         LAMBDA first :
             Then(IF isNamedParam
                  THEN parseParameterList(toks, TypeParsed(<<first.exp>>, first.pos,
                                                           first.errors, FALSE))
                  ELSE parseTypeList(toks, TypeParsed(<<first.exp>>, first.pos,
                                                      first.errors, FALSE)),
                  LAMBDA list : closeList(toks, isNamedParam, list)))

\* parseTupleOrFunctionType, the parser standing on '('.
parseTupleOrFunctionType(toks, pos) ==
    IF peekToken(toks, pos).Type = ")"
    THEN parseArrow(toks, TypeParsed(<<>>, pos + 1, 0, FALSE))
    ELSE parseList(toks, pos + 1, /\ curToken(toks, pos + 1).Type = "IDENT"
                                  /\ peekToken(toks, pos + 1).Type = ":")

\* The initializer of a declaration, if there is one.
parseInitializer(toks, pos) ==
    IF peekToken(toks, pos).Type = "="
    THEN Returned(parseExpression(toks, pos + 2, LOWEST))
    ELSE TypeParsed(NilExpr, pos, 0, FALSE)

\* The type annotation of a declaration, if there is one.
parseAnnotation(toks, pos) ==
    IF peekToken(toks, pos).Type = ":" THEN parseType(toks, pos + 2)
    ELSE TypeParsed(NilExpr, pos, 0, FALSE)

\* The declaration that parseVariableDeclaration returns.
declaration(name, isConstant, type, value) ==
    TypeParsed(VariableDeclaration(name, type.exp, value.exp, isConstant), value.pos,
               type.errors + value.errors, FALSE)

\* parseVariableDeclaration, the parser standing on local or const.  Without a
\* name it returns a nil *ast.VariableDeclaration.
parseVariableDeclaration(toks, pos) ==
    LET name == expectPeek(toks, pos, "IDENT")
    IN  IF ~name.ok THEN TypeParsed(NilExpr, name.pos, name.errors, FALSE)
        ELSE Then(parseAnnotation(toks, name.pos),
                  LAMBDA type :
                      declaration(curToken(toks, name.pos).Literal.chars,
                                  curToken(toks, pos).Type = "const", type,
                                  parseInitializer(toks, type.pos)))

\* The assignment that parseExpressionStatement returns behind a '='.
assignment(expr, value) ==
    TypeParsed(AssignmentStatement(expr.exp, value.exp), value.pos,
               expr.errors + value.errors, FALSE)

\* parseExpressionStatement after its expression.
assignmentOrExpression(toks, expr) ==
    IF peekToken(toks, expr.pos).Type = "="
    THEN assignment(expr, parseExpression(toks, expr.pos + 2, LOWEST))
    ELSE TypeParsed(ExpressionStatement(expr.exp), expr.pos, expr.errors, FALSE)

parseExpressionStatement(toks, pos) ==
    assignmentOrExpression(toks, parseExpression(toks, pos, LOWEST))

\* parseStatement for the tokens of the inputs, which hold no other keyword
\* that starts a statement.
parseStatement(toks, pos) ==
    IF curToken(toks, pos).Type \in {"local", "const"}
    THEN parseVariableDeclaration(toks, pos)
    ELSE parseExpressionStatement(toks, pos)

\* for !p.curTokenIs(lexer.EOF): acc holds the statements so far in exp.  A
\* nil *ast.VariableDeclaration is a Statement other than nil and is appended.
RECURSIVE parseStatements(_, _)
parseStatements(toks, acc) ==
    IF curToken(toks, acc.pos).Type = "EOF" THEN acc
    ELSE Then(parseStatement(toks, acc.pos),
              LAMBDA stmt : parseStatements(toks,
                  TypeParsed(Append(acc.exp, stmt.exp), stmt.pos + 1,
                             acc.errors + stmt.errors, FALSE)))

\* Parse on a parser that New has set on the first token.
ParserParse(toks) == parseStatements(toks, TypeParsed(<<>>, 1, 0, FALSE))

(***************************************************************************)
(* A caller of the parser: New on the tokens of a declaration  local x :   *)
(* followed by up to MaxTokenPieces pieces, then Parse.                    *)
(***************************************************************************)
Word(type)  == Tok(type, WordText(type))
Name(name)  == Tok("IDENT", WordText(name))
AString     == Tok("STRING", StringText(<<"s">>))
ANumber     == Tok("NUMBER", NumeralText(RInt(1)))

PsPieces ==
    { <<Name("a")>>, <<Word("number")>>, <<AString>>, <<ANumber>>,
      <<Word("table"), Word("<"), Word("string"), Word(","), Name("a"), Word(">")>>,
      <<Word("table")>>,
      <<Word("["), Word("]")>>, <<Word("[")>>,
      <<Word("<"), Name("a"), Word(">")>>, <<Word("<")>>, <<Word(">")>>,
      <<Word("?")>>, <<Word("|")>>, <<Word(",")>>,
      <<Word("("), Name("a"), Word(")")>>, <<Word("("), Word(")")>>,
      <<Word("("), Name("a"), Word(":"), Name("a"), Word(")")>>,
      <<Word("=>")>>,
      <<Word("="), ANumber>>,
      <<Word("const"), Name("y"), Word(":")>>, <<Word("local")>> }

RECURSIVE PsJoin(_)
PsJoin(pieces) == IF pieces = <<>> THEN <<>> ELSE Head(pieces) \o PsJoin(Tail(pieces))

PsInputs ==
    { <<Word("local"), Name("x"), Word(":")>> \o PsJoin(pieces) :
        pieces \in UNION {[1..n -> PsPieces] : n \in 0..MaxTokenPieces} }

PsIdle ==
    /\ psPc = "idle"
    /\ psTokens = <<>>
    /\ psStatements = <<>>
    /\ psErrors = 0

PsInit ==
    /\ psPc = "ready"
    /\ psTokens \in PsInputs
    /\ psStatements = <<>>
    /\ psErrors = 0

\* parser.New(l).Parse() and then Errors(): Parse returns the statements, or
\* the panic of a type assertion ends the program.
PsParse ==
    /\ psPc = "ready"
    /\ LET parsed == ParserParse(psTokens)
       IN  /\ psPc' = IF parsed.aborted THEN "aborted" ELSE "returned"
           /\ psStatements' = IF parsed.aborted THEN <<>> ELSE parsed.exp
           /\ psErrors' = IF parsed.aborted THEN 0 ELSE parsed.errors
    /\ UNCHANGED <<psTokens, psOthers>>

(***************************************************************************)
(* Reading a mappings string back: the groups between ';', the segments    *)
(* between separators, and the VLQ fields of a segment.                    *)
(***************************************************************************)
RECURSIVE SplitOn(_, _, _, _)
\* The pieces of str between the characters of seps, from index k on; cur is the open piece.
SplitOn(str, seps, k, cur) ==
    IF k > Len(str) THEN <<cur>>
    ELSE IF str[k] \in seps THEN <<cur>> \o SplitOn(str, seps, k + 1, <<>>)
    ELSE SplitOn(str, seps, k + 1, Append(cur, str[k]))

Groups(str)   == SplitOn(str, {CharSemicolon}, 1, <<>>)
Segments(str) == SelectSeq(SplitOn(str, {CharSemicolon, CharComma}, 1, <<>>),
                           LAMBDA piece : piece # <<>>)
CountChar(str, c) == Cardinality({k \in 1..Len(str) : str[k] = c})

RECURSIVE Fields(_)
Fields(segment) ==
    IF segment = <<>> THEN <<>>
    ELSE LET d == DecodeVLQ(segment)
         IN  <<d[1]>> \o Fields(SubSeq(segment, d[2] + 1, Len(segment)))

Built == sourceMap # NoSourceMap
SegmentsOnLine(line) == Cardinality({k \in 1..Len(mappings) : mappings[k].GeneratedLine = line})

\* C6: in the mappings string of Build, the group of generated line L (the L-th
\* group between ';') of a line that carries k >= 1 segments holds exactly k-1
\* commas and does not start with a comma.
C6_GroupsAndCommas ==
    Built =>
        \A line \in GenLines :
            SegmentsOnLine(line) >= 1 =>
                LET gs == Groups(sourceMap.Mappings)
                IN  /\ line <= Len(gs)
                    /\ CountChar(gs[line], CharComma) = SegmentsOnLine(line) - 1
                    /\ gs[line] # <<>> => gs[line][1] # CharComma

\* C7: for mappings added in non-decreasing generated position, the k-th segment's
\* first field is the generated column minus that of the previous segment of the
\* same generated line (the column itself for the first segment of a line); its
\* third and fourth fields are the 0-based source line and the source column minus
\* those of the previous segment, whatever generated line that one lies on.
C7_SegmentDeltas ==
    (Built /\ NonDecreasing(mappings)) =>
        LET segs == Segments(sourceMap.Mappings)
        IN  /\ Len(segs) = Len(mappings)
            /\ \A k \in 1..Len(mappings) :
                  LET m  == mappings[k]
                      f  == Fields(segs[k])
                      sameLine == k > 1 /\ mappings[k - 1].GeneratedLine = m.GeneratedLine
                  IN  /\ Len(f) >= 4
                      /\ f[1] = m.GeneratedColumn
                                  - (IF sameLine THEN mappings[k - 1].GeneratedColumn ELSE 0)
                      /\ f[3] = (m.SourceLine - 1)
                                  - (IF k > 1 THEN mappings[k - 1].SourceLine - 1 ELSE 0)
                      /\ f[4] = m.SourceColumn
                                  - (IF k > 1 THEN mappings[k - 1].SourceColumn ELSE 0)

\* A build whose second segment starts a new generated line after a segment at a
\* non-zero column, and whose source position moves backwards across that line break.
C7_Witness ==
    /\ Built
    /\ Len(mappings) >= 2
    /\ mappings[1].GeneratedColumn > 0
    /\ mappings[2].GeneratedLine > mappings[1].GeneratedLine
    /\ mappings[2].SourceColumn < mappings[1].SourceColumn

\* C8: DecodeVLQ applied to EncodeVLQ(v) followed by any further characters returns
\* v and reports consuming exactly len(EncodeVLQ(v)) characters.
C8_VLQRoundTrip ==
    vlqPc = "decoded" => vlqDecoded = <<vlqInput, Len(EncodeVLQ(vlqInput))>>

\* A negative value that needs three characters, decoded with trailing text that
\* starts with a character whose digit has the continuation bit set.
C8_Witness ==
    /\ vlqPc = "decoded"
    /\ vlqInput < 0
    /\ Len(vlqEncoded) >= 3
    /\ Len(vlqTrailing) > 0
    /\ vlqTrailing[1] = 103

(***************************************************************************)
(* Specifications.                                                         *)
(***************************************************************************)
(* The target dialect's arithmetic, as the reference for the optimizer.    *)
(***************************************************************************)
\* a % b in the target dialect: a - floor(a / b) * b
LuaMod(a, b) == RSub(a, RMul(RInt(RFloor(RDiv(a, b))), b))

LuaArith(op, a, b) ==
    CASE op = "+" -> RAdd(a, b)
      [] op = "-" -> RSub(a, b)
      [] op = "*" -> RMul(a, b)
      [] op = "/" -> RDiv(a, b)
      [] op = "%" -> LuaMod(a, b)

LuaCompare(op, a, b) ==
    CASE op = "==" -> a = b
      [] op = "!=" -> a # b
      [] op = "<"  -> RLess(a, b)
      [] op = "<=" -> RLeq(a, b)
      [] op = ">"  -> RLess(b, a)
      [] op = ">=" -> RLeq(b, a)

\* The number the target dialect computes for an expression built from numerals,
\* unary minus and + - * / %.
RECURSIVE LuaNumber(_)
LuaNumber(e) ==
    CASE IsNode(e, "NumberLiteral")    -> e.Token.Literal.denotes
      [] IsNode(e, "PrefixExpression") -> RNeg(LuaNumber(e.Right))
      [] IsNode(e, "InfixExpression")  -> LuaArith(e.Operator, LuaNumber(e.Left), LuaNumber(e.Right))

\* The expression is such a one, and no division or modulo in it is by zero.
RECURSIVE LuaDefined(_)
LuaDefined(e) ==
    CASE IsNode(e, "NumberLiteral")    -> e.Token.Literal.kind = "numeral"
      [] IsNode(e, "PrefixExpression") -> e.Operator = "-" /\ LuaDefined(e.Right)
      [] IsNode(e, "InfixExpression")  ->
            /\ e.Operator \in {"+", "-", "*", "/", "%"}
            /\ LuaDefined(e.Left) /\ LuaDefined(e.Right)
            /\ (e.Operator \in {"/", "%"} => LuaNumber(e.Right) # Zero)
      [] OTHER -> FALSE

\* The expression is a numeric literal that reads as, and holds, the number q.
IsNumberLiteralOf(e, q) ==
    /\ IsNode(e, "NumberLiteral")
    /\ e.Token.Literal = NumeralText(q)
    /\ e.Value = q

\* The target dialect reads the emitted text as the number q.
TextDenotes(text, q) ==
    \/ text = <<NumeralText(q)>>
    \/ text = <<WordText("-"), NumeralText(RNeg(q))>>

Optimized == optPc \in {"optimized", "generated", "aborted"}

\* The optimized expression is a binary operation on two operands that optimize
\* to numeric literals.
FoldsNumbers ==
    /\ Optimized
    /\ IsNode(optExpr, "InfixExpression")
    /\ optExpr.Operator \in ArithmeticOps \cup ComparisonOps
    /\ IsNode(optimizeExpression(optExpr.Left), "NumberLiteral")
    /\ IsNode(optimizeExpression(optExpr.Right), "NumberLiteral")
    /\ LuaDefined(optExpr.Left) /\ LuaDefined(optExpr.Right)

\* C2: when both operands of an arithmetic or comparison expression optimize to
\* numeric literals, the optimizer substitutes a literal that denotes the value
\* the target dialect computes for the expression, and leaves the expression
\* unfolded only when it divides or takes a modulo by zero.
C2_FoldedValueIsTargetValue ==
    FoldsNumbers =>
        LET op == optExpr.Operator
            a  == LuaNumber(optExpr.Left)
            b  == LuaNumber(optExpr.Right)
        IN  IF op \in {"/", "%"} /\ b = Zero
            THEN IsNode(optResult, "InfixExpression")
            ELSE IF op \in ArithmeticOps
            THEN IsNumberLiteralOf(optResult, LuaArith(op, a, b))
            ELSE /\ IsNode(optResult, "BooleanLiteral")
                 /\ optResult.Bool = LuaCompare(op, a, b)

\* The optimized expression is unary minus on a numeral.
NegatesLiteral(e) ==
    /\ IsNode(e, "PrefixExpression")
    /\ e.Operator = "-"
    /\ IsNode(e.Right, "NumberLiteral")

\* C10: folding unary minus on a numeric literal gives a numeric literal whose
\* value and whose emitted text denote the negated number, and in a folded
\* binary operation that literal counts as the negated number.
C10_FoldedMinusIsNegation ==
    /\ (Optimized /\ NegatesLiteral(optExpr)) =>
          /\ IsNode(optResult, "NumberLiteral")
          /\ optResult.Value = RNeg(optExpr.Right.Value)
          /\ optPc = "generated" => TextDenotes(optEmitted, RNeg(optExpr.Right.Value))
    /\ (FoldsNumbers /\ optExpr.Operator \in {"+", "-", "*"}
          /\ (NegatesLiteral(optExpr.Left) \/ NegatesLiteral(optExpr.Right))) =>
          /\ IsNode(optResult, "NumberLiteral")
          /\ optResult.Value = LuaArith(optExpr.Operator,
                                        LuaNumber(optExpr.Left), LuaNumber(optExpr.Right))

(***************************************************************************)
(* Structural equality of expressions: node kinds, operators, names and    *)
(* literal values; not the tokens, and not the spelling of an operator     *)
(* that the target dialect spells differently.                             *)
(***************************************************************************)
RECURSIVE Shape(_)
Shape(e) ==
    CASE IsNode(e, "Identifier")       -> [node |-> e.node, Name |-> e.Name]
      [] IsNode(e, "NumberLiteral")    -> [node |-> e.node, Value |-> e.Value]
      [] IsNode(e, "StringLiteral")    -> [node |-> e.node, Str |-> e.Str]
      [] IsNode(e, "BooleanLiteral")   -> [node |-> e.node, Bool |-> e.Bool]
      [] IsNode(e, "PrefixExpression") ->
            [node |-> e.node, Operator |-> IF e.Operator = "!" THEN "not" ELSE e.Operator,
             Right |-> Shape(e.Right)]
      [] IsNode(e, "InfixExpression")  ->
            [node |-> e.node, Left |-> Shape(e.Left), Operator |-> LuaOperator(e.Operator),
             Right |-> Shape(e.Right)]
      [] IsNode(e, "CallExpression")   ->
            [node |-> e.node, Function |-> Shape(e.Function),
             Arguments |-> [i \in 1..Len(e.Arguments) |-> Shape(e.Arguments[i])]]
      [] IsNode(e, "DotExpression")    ->
            [node |-> e.node, Left |-> Shape(e.Left), Right |-> Shape(e.Right)]
      [] IsNode(e, "IndexExpression")  ->
            [node |-> e.node, Left |-> Shape(e.Left), Index |-> Shape(e.Index)]
      [] IsNode(e, "TableLiteral")     ->
            [node |-> e.node,
             Values |-> [i \in 1..Len(e.Values) |-> Shape(e.Values[i])],
             Pairs |-> {<<Shape(e.Pairs[i][1]), Shape(e.Pairs[i][2])>> : i \in 1..Len(e.Pairs)}]
      [] OTHER -> [node |-> e.node]

\* C1: parsing the text the generator emits for a parsed expression gives an
\* expression structurally equal to it, whatever the nesting of infix and
\* prefix expressions, member accesses, indexes and calls.
C1_ReparseGivesSameExpression ==
    rtPc = "reparsed" => Shape(rtAst2) = Shape(rtAst)

RunTypes == {entry[2] : entry \in checker.env}

IsLiteralType(t) == t.kind \in {"stringLiteral", "numberLiteral"}
PrimitiveOf(t)   == IF IsKind(t, "stringLiteral") THEN String ELSE Number

\* The rule for a union on the right: some member takes t, or t is a literal
\* and the union has its primitive.
SomeMemberTakes(t, union) ==
    \/ \E i \in 1..Len(union.Types) : IsAssignableTo(t, union.Types[i])
    \/ IsLiteralType(t) /\ Contains(union, PrimitiveOf(t))

\* C3: a non-union type T is assignable to a union type U exactly when T is
\* assignable to some member of U, or T is a literal type and U contains its
\* primitive, for every kind of T (class, interface, enum, array, table,
\* tuple and function types included).
C3_UnionRuleForEveryKind ==
    ckPc = "done" =>
        \A t, u \in RunTypes :
            ~IsKind(t, "union") /\ IsKind(u, "union") =>
                (IsAssignableTo(t, u) <=> SomeMemberTakes(t, u))

RECURSIVE ContainsAny(_)
\* The type is any, or any occurs in it.
ContainsAny(t) ==
    CASE IsKind(t, "any")   -> TRUE
      [] IsKind(t, "array") -> ContainsAny(t.ElementType)
      [] IsKind(t, "table") -> ContainsAny(t.KeyType) \/ ContainsAny(t.ValueType)
      [] IsKind(t, "function") ->
            \/ ContainsAny(t.ReturnType)
            \/ \E i \in 1..Len(t.Parameters) : ContainsAny(t.Parameters[i])
      [] IsKind(t, "union") -> \E i \in 1..Len(t.Types) : ContainsAny(t.Types[i])
      [] IsKind(t, "tuple") -> \E i \in 1..Len(t.Elements) : ContainsAny(t.Elements[i])
      [] IsKind(t, "class") ->
            \/ \E entry \in t.Properties \cup t.Methods : ContainsAny(entry[2])
            \/ \E i \in 1..Len(t.Implements) : ContainsAny(t.Implements[i])
      [] IsKind(t, "interface") ->
            \/ \E entry \in t.Properties \cup t.Methods : ContainsAny(entry[2])
            \/ \E i \in 1..Len(t.Extends) : ContainsAny(t.Extends[i])
      [] OTHER -> FALSE

\* C4: assignability is transitive away from any: for the types T, U, V of a
\* run that neither are nor contain any, T assignable to U and U assignable to
\* V give T assignable to V.
C4_TransitiveAwayFromAny ==
    ckPc = "done" =>
        \A t, u, v \in {typ \in RunTypes : ~ContainsAny(typ)} :
            IsAssignableTo(t, u) /\ IsAssignableTo(u, v) => IsAssignableTo(t, v)

RECURSIVE IdentifiersIn(_)
\* The names an expression reads.
IdentifiersIn(e) ==
    CASE IsNode(e, "Identifier")       -> {e.Name}
      [] IsNode(e, "PrefixExpression") -> IdentifiersIn(e.Right)
      [] IsNode(e, "InfixExpression")  -> IdentifiersIn(e.Left) \cup IdentifiersIn(e.Right)
      [] IsNode(e, "CallExpression")   ->
            IdentifiersIn(e.Function)
               \cup UNION {IdentifiersIn(e.Arguments[i]) : i \in 1..Len(e.Arguments)}
      [] OTHER -> {}

\* The names of e that no statement of the run declares: the environment only
\* grows, so a name it lacks when Check returns it lacked at every statement.
UndefinedIn(e) == {n \in IdentifiersIn(e) : ~HasKey(checker.env, n)}

\* The run reported, for statement i, that the name is undefined.
ReportedUndefined(n, i) ==
    \E k \in 1..Len(checker.errors) :
        checker.errors[k] = TypeError("Undefined variable", <<n>>, i)

\* Statement i assigns to a name that an earlier statement declares const.
AssignsToConst(i) ==
    /\ IsNode(statements[i], "AssignmentStatement")
    /\ IsNode(statements[i].Name, "Identifier")
    /\ \E j \in 1..(i - 1) :
          /\ IsNode(statements[j], "VariableDeclaration")
          /\ statements[j].IsConstant
          /\ statements[j].Name = statements[i].Name.Name

\* Statement i calls a variable of a function type with the wrong number of arguments.
CallsWithWrongArity(i) ==
    /\ IsNode(statements[i], "ExpressionStatement")
    /\ IsNode(statements[i].Expression, "CallExpression")
    /\ IsNode(statements[i].Expression.Function, "Identifier")
    /\ HasKey(checker.env, statements[i].Expression.Function.Name)
    /\ LET fnType == Lookup(checker.env, statements[i].Expression.Function.Name)
       IN  /\ IsKind(fnType, "function")
           /\ Len(fnType.Parameters) # Len(statements[i].Expression.Arguments)

\* C5: a failing check never suppresses the other checks of its statement:
\* when an assignment targets a constant, or a call passes the wrong number
\* of arguments, the undefined names of the right-hand side and of the
\* argument expressions are still reported by the run.
C5_FailingCheckSuppressesNothing ==
    ckPc = "done" =>
        \A i \in 1..Len(statements) :
            /\ AssignsToConst(i) =>
                  \A n \in UndefinedIn(statements[i].Value) : ReportedUndefined(n, i)
            /\ CallsWithWrongArity(i) =>
                  \A j \in 1..Len(statements[i].Expression.Arguments) :
                     \A n \in UndefinedIn(statements[i].Expression.Arguments[j]) :
                        ReportedUndefined(n, i)

\* The optimized expression divides, or takes the modulo of, two numeric literals.
DividesLiterals ==
    /\ Optimized
    /\ IsNode(optExpr, "InfixExpression")
    /\ optExpr.Operator \in {"/", "%"}
    /\ IsNode(optExpr.Left, "NumberLiteral")
    /\ IsNode(optExpr.Right, "NumberLiteral")

\* C14: for every pair of numeric literal operands, folding / or % never aborts
\* the optimizer: with a zero divisor the expression is returned unfolded, and
\* with any other divisor (fractional ones included) a numeric literal is returned.
C14_DivisionNeverAborts ==
    DividesLiterals =>
        /\ optPc # "aborted"
        /\ IF optExpr.Right.Value = Zero
           THEN optResult = optExpr
           ELSE IsNode(optResult, "NumberLiteral")

(***************************************************************************)
(* The target dialect's and / or, as the reference for the optimizer: a    *)
(* value is nil, a boolean or a number; nil and false are falsy; "a and b" *)
(* is a when a is falsy and b otherwise, "a or b" is a when a is truthy    *)
(* and b otherwise, and b is evaluated only when it is the result.         *)
(***************************************************************************)
LuaNil        == [t |-> "nil"]
LuaBoolean(b) == [t |-> "boolean", b |-> b]
LuaNumberValue(q) == [t |-> "number", n |-> q]
LuaValues     == {LuaNil, LuaBoolean(FALSE), LuaBoolean(TRUE), LuaNumberValue(RInt(1))}
Truthy(v)     == v # LuaNil /\ v # LuaBoolean(FALSE)

\* The name of a non-literal operand: the variable, or the function called.
OperandName(e) == IF IsNode(e, "Identifier") THEN e.Name ELSE e.Function.Name
IsLogicOp(op)  == op \in {"and", "or"}

\* The expression is built from boolean literals, variables and calls with and / or.
RECURSIVE IsLogical(_)
IsLogical(e) ==
    CASE IsNode(e, "BooleanLiteral") -> TRUE
      [] IsNode(e, "Identifier")     -> TRUE
      [] IsNode(e, "CallExpression") -> IsNode(e.Function, "Identifier") /\ e.Arguments = <<>>
      [] IsNode(e, "InfixExpression") ->
            IsLogicOp(e.Operator) /\ IsLogical(e.Left) /\ IsLogical(e.Right)
      [] OTHER -> FALSE

\* The value of a logical expression when its non-literal operands yield val[name].
RECURSIVE LuaValue(_, _)
LuaValue(e, val) ==
    CASE IsNode(e, "BooleanLiteral") -> LuaBoolean(e.Bool)
      [] IsNode(e, "InfixExpression") ->
            LET left == LuaValue(e.Left, val)
            IN  IF Truthy(left) = (e.Operator = "and") THEN LuaValue(e.Right, val) ELSE left
      [] OTHER -> val[OperandName(e)]

\* The non-literal operands that evaluating the expression evaluates, in order.
RECURSIVE LuaTrace(_, _)
LuaTrace(e, val) ==
    CASE IsNode(e, "BooleanLiteral") -> <<>>
      [] IsNode(e, "InfixExpression") ->
            LuaTrace(e.Left, val)
               \o (IF Truthy(LuaValue(e.Left, val)) = (e.Operator = "and")
                   THEN LuaTrace(e.Right, val) ELSE <<>>)
      [] OTHER -> <<OperandName(e)>>

\* The non-literal operands that occur in the expression.
RECURSIVE OperandsOf(_)
OperandsOf(e) ==
    CASE IsNode(e, "BooleanLiteral") -> {}
      [] IsNode(e, "InfixExpression") -> OperandsOf(e.Left) \cup OperandsOf(e.Right)
      [] OTHER -> {OperandName(e)}

Valuations == [{"x", "f"} -> LuaValues]
Evaluates(e, val, name) == \E i \in 1..Len(LuaTrace(e, val)) : LuaTrace(e, val)[i] = name

\* The optimizer was given an and / or expression.
SimplifiesLogic ==
    /\ Optimized
    /\ IsNode(optExpr, "InfixExpression")
    /\ IsLogical(optExpr)

\* C11: the simplification of and / or preserves observable behaviour: an
\* operand is removed only when short-circuit evaluation of the original never
\* evaluates it, and the simplified expression yields the value of the original
\* for every value of the non-literal operands.
C11_LogicSimplificationPreservesBehaviour ==
    SimplifiesLogic =>
        /\ IsLogical(optResult)
        /\ \A name \in OperandsOf(optExpr) \ OperandsOf(optResult) :
              \A val \in Valuations : ~Evaluates(optExpr, val, name)
        /\ \A val \in Valuations : LuaValue(optResult, val) = LuaValue(optExpr, val)

\* C15: for every string literal value the lexer can produce (values with a
\* double quote, a backslash or a newline included), lexing the text the
\* generator emits for the literal yields a single string token with that value.
C15_EmittedStringLexesToItsValue ==
    rtPc \in {"generated", "regenerated", "reparsed"} /\ IsNode(rtAst, "StringLiteral") =>
        Lex(rtEmitted) = <<Tok("STRING", StringText(rtAst.Str))>>

\* The interfaces reachable from an interface through one or more extends links.
RECURSIVE ExtendedBy(_)
ExtendedBy(iface) ==
    UNION {{iface.Extends[i]} \cup ExtendedBy(iface.Extends[i]) : i \in 1..Len(iface.Extends)}

\* C17: a class is assignable to every interface of its implements chain,
\* recursively: if class C implements I and J is reachable from I through one
\* or more extends links, then C is assignable to J.
C17_ClassAssignableAlongImplementsChain ==
    ckPc = "done" =>
        \A class \in {t \in RunTypes : IsKind(t, "class")} :
            \A i \in 1..Len(class.Implements) :
                \A iface \in ExtendedBy(class.Implements[i]) : IsAssignableTo(class, iface)

\* Statement i declares a class or an interface.
DeclaresClassOrInterface(i) ==
    statements[i].node \in {"ClassDeclaration", "InterfaceDeclaration"}

\* The type that the first pass registered for the declaration of statement i.
RegisteredAs(i) ==
    IF IsNode(statements[i], "ClassDeclaration")
    THEN Lookup(checker.classes, statements[i].Name)
    ELSE Lookup(checker.interfaces, statements[i].Name)

\* The type expression is the name.
Mentions(type, name) == IsNode(type, "Identifier") /\ type.Name = name

\* C18: the first pass registers a class or interface so that member signatures
\* mentioning the declared type's own name (a property, parameter or return
\* type) resolve to it, without an unknown-type diagnostic.
C18_OwnNameResolvesInMembers ==
    ckPc \in {"check", "done"} =>
        \A i \in 1..Len(statements) :
            DeclaresClassOrInterface(i) =>
                LET name == statements[i].Name
                    decl == statements[i]
                    typ  == RegisteredAs(i)
                IN  /\ \A k \in 1..Len(checker.errors) :
                          checker.errors[k] # TypeError("Unknown type", <<name>>, i)
                    /\ \A p \in 1..Len(decl.Properties) :
                          Mentions(decl.Properties[p].Type, name) =>
                             Equals(Lookup(typ.Properties, decl.Properties[p].Name), typ)
                    /\ \A m \in 1..Len(decl.Methods) :
                          Mentions(decl.Methods[m].ReturnType, name) =>
                             Equals(Lookup(typ.Methods, decl.Methods[m].Name).ReturnType, typ)

IsTypeDeclaration(stmt) ==
    stmt.node \in {"ClassDeclaration", "InterfaceDeclaration", "EnumDeclaration"}

\* The statement list with statements i and j exchanged.
Exchanged(stmts, i, j) ==
    [k \in 1..Len(stmts) |-> IF k = i THEN stmts[j] ELSE IF k = j THEN stmts[i] ELSE stmts[k]]

\* C19: for a well-typed program the checker reports no diagnostics whatever
\* the order of its type declarations: a class may implement, and an interface
\* may extend, an interface that is declared later.
C19_DeclarationOrderIsImmaterial ==
    ckPc = "done" /\ checker.errors = <<>> =>
        \A i, j \in 1..Len(statements) :
            IsTypeDeclaration(statements[i]) /\ IsTypeDeclaration(statements[j]) =>
                Check(checker.order, Exchanged(statements, i, j)) = <<>>

\* The union types that occur in a type.
RECURSIVE UnionsIn(_)
UnionsIn(t) ==
    CASE IsKind(t, "union") ->
            {t} \cup UNION {UnionsIn(t.Types[i]) : i \in 1..Len(t.Types)}
      [] IsKind(t, "array") -> UnionsIn(t.ElementType)
      [] IsKind(t, "table") -> UnionsIn(t.KeyType) \cup UnionsIn(t.ValueType)
      [] IsKind(t, "function") ->
            UnionsIn(t.ReturnType)
               \cup UNION {UnionsIn(t.Parameters[i]) : i \in 1..Len(t.Parameters)}
      [] IsKind(t, "tuple") -> UNION {UnionsIn(t.Elements[i]) : i \in 1..Len(t.Elements)}
      [] OTHER -> {}

\* C20: every union type the checker constructs has pairwise non-equal
\* members: duplicate members are removed.
C20_UnionMembersAreDistinct ==
    ckPc = "done" =>
        \A t \in RunTypes : \A u \in UnionsIn(t) :
            \A i, j \in 1..Len(u.Types) : i # j => ~Equals(u.Types[i], u.Types[j])

(***************************************************************************)
(* Reading the emitted text as the target dialect scopes it: a chunk and   *)
(* every function body, loop body, branch and do-block is a scope; a local *)
(* is visible from the statement after its declaration to the end of its   *)
(* scope; a name that no visible local declares is a global.               *)
(***************************************************************************)
LuaKeywords ==
    {"and", "break", "do", "else", "elseif", "end", "false", "for", "function", "goto",
     "if", "in", "local", "nil", "not", "or", "repeat", "return", "then", "true",
     "until", "while"}

IsName(lexeme) ==
    lexeme.kind = "word" /\ lexeme.chars \notin LuaKeywords \cup symbols \cup {""}

RECURSIVE NamesFrom(_, _)
\* The variable names in a line from lexeme k on, in order; the name after
\* "." or ":" is a field.
NamesFrom(line, k) ==
    IF k > Len(line) THEN <<>>
    ELSE (IF IsName(line[k]) /\ (k = 1 \/ line[k - 1].chars \notin {".", ":"})
          THEN <<line[k].chars>> ELSE <<>>) \o NamesFrom(line, k + 1)

RECURSIVE Resolve(_, _)
\* The declaration a name is bound to, 0 for a global; scopes is the stack
\* of open scopes, each the set of its <<name, declaration>> pairs.
Resolve(scopes, name) ==
    IF scopes = <<>> THEN 0
    ELSE LET top == scopes[Len(scopes)]
             ids == {d[2] : d \in {e \in top : e[1] = name}}
         IN  IF ids # {} THEN CHOOSE id \in ids : \A other \in ids : other <= id
             ELSE Resolve(SubSeq(scopes, 1, Len(scopes) - 1), name)

Resolved(scopes, used) == [k \in 1..Len(used) |-> <<used[k], Resolve(scopes, used[k])>>]
Declared(declared, next) == {<<declared[k], next + k - 1>> : k \in 1..Len(declared)}
Opened(scopes, scope) == Append(scopes, scope)
Closed(scopes) == SubSeq(scopes, 1, Len(scopes) - 1)
Extended(scopes, scope) == [scopes EXCEPT ![Len(scopes)] = @ \cup scope]

RECURSIVE ReadScopes(_, _, _, _)
\* The uses of names from line i on, each with the declaration it is bound
\* to; declarations are numbered in the order of the text, from next on.
ReadScopes(lines, i, scopes, next) ==
    IF i > Len(lines) THEN <<>>
    ELSE LET line == lines[i]
             head == IF line = <<>> THEN "" ELSE line[1].chars
         IN  CASE head = "local" ->
                    Resolved(scopes, NamesFrom(line, 3))
                       \o ReadScopes(lines, i + 1,
                                     Extended(scopes, Declared(<<line[2].chars>>, next)),
                                     next + 1)
               [] head = "function" ->
                    LET open   == CHOOSE k \in 1..Len(line) :
                                      /\ line[k].chars = "("
                                      /\ \A j \in 1..(k - 1) : line[j].chars # "("
                        self   == IF \E k \in 1..open : line[k].chars = ":"
                                  THEN <<"self">> ELSE <<>>
                        params == self \o NamesFrom(line, open + 1)
                    IN  Resolved(scopes, NamesFrom(SubSeq(line, 1, open), 2))
                           \o ReadScopes(lines, i + 1,
                                         Opened(scopes, Declared(params, next)),
                                         next + Len(params))
               [] head \in {"if", "while"} ->
                    Resolved(scopes, NamesFrom(line, 2))
                       \o ReadScopes(lines, i + 1, Opened(scopes, {}), next)
               [] head = "do"   -> ReadScopes(lines, i + 1, Opened(scopes, {}), next)
               [] head = "else" -> ReadScopes(lines, i + 1, Opened(Closed(scopes), {}), next)
               [] head = "end"  -> ReadScopes(lines, i + 1, Closed(scopes), next)
               [] OTHER ->
                    Resolved(scopes, NamesFrom(line, 1))
                       \o ReadScopes(lines, i + 1, scopes, next)

Bindings(lines) == ReadScopes(lines, 1, << {} >>, 1)

RECURSIVE InOwnScope(_)
\* The statement with every block that stands for a constant if enclosed in
\* a scope of its own, as the branch of the if was.
InOwnScope(stmt) ==
    LET each(block) ==
            IF block = NilExpr THEN NilExpr
            ELSE [block EXCEPT !.Statements = [k \in 1..Len(@) |-> InOwnScope(@[k])]]
    IN  CASE IsNode(stmt, "BlockStatement") -> DoStatement(each(stmt))
          [] IsNode(stmt, "IfStatement") ->
                [stmt EXCEPT !.Consequence = each(@), !.Alternative = each(@)]
          [] stmt.node \in {"WhileStatement", "DoStatement", "FunctionDeclaration"} ->
                [stmt EXCEPT !.Body = each(@)]
          [] OTHER -> stmt

\* C12: replacing an if whose condition is a constant by the selected branch
\* leaves the bindings seen by the following statements unchanged: a local
\* declared inside the branch is not visible to, and does not shadow a name
\* used by, a statement that follows.  Every use of a name in the generated
\* text is bound as it is when the branch keeps a scope of its own.
C12_BranchLocalsStayInTheBranch ==
    pgPc = "generated" /\ pgOptimize =>
        Bindings(pgEmitted)
           = Bindings(GenerateStatements([k \in 1..Len(pgOptimized) |->
                                              InOwnScope(pgOptimized[k])]))

\* The statement lists of the blocks in a statement, at any depth.
RECURSIVE BlocksOf(_)
BlocksIn(stmts) == UNION {BlocksOf(stmts[k]) : k \in 1..Len(stmts)}
BlocksOf(stmt) ==
    LET within(block) ==
            IF block = NilExpr THEN {}
            ELSE {block.Statements} \cup BlocksIn(block.Statements)
    IN  CASE IsNode(stmt, "BlockStatement") -> within(stmt)
          [] IsNode(stmt, "IfStatement") -> within(stmt.Consequence) \cup within(stmt.Alternative)
          [] stmt.node \in {"WhileStatement", "DoStatement", "FunctionDeclaration"} ->
                within(stmt.Body)
          [] IsNode(stmt, "ClassDeclaration") ->
                (IF stmt.Constructor = NilExpr THEN {} ELSE within(stmt.Constructor.Body))
                   \cup UNION {within(stmt.Methods[m].Body) : m \in 1..Len(stmt.Methods)}
          [] OTHER -> {}

Exits(stmt) == stmt.node \in {"ReturnStatement", "BreakStatement"}
\* The statements up to and including the first return or break.
UpToExit(stmts) ==
    IF \E k \in 1..Len(stmts) : Exits(stmts[k])
    THEN SubSeq(stmts, 1, CHOOSE k \in 1..Len(stmts) :
                              Exits(stmts[k]) /\ \A j \in 1..(k - 1) : ~Exits(stmts[j]))
    ELSE stmts
\* The kinds of the statements the optimizer keeps of a list, in order.
KeptKinds(stmts) ==
    LET images == SelectSeq([k \in 1..Len(stmts) |-> optimizeStatement(stmts[k])],
                            LAMBDA opt : opt # NilExpr)
    IN  [k \in 1..Len(images) |-> images[k].node]

\* C13: after optimization no block of the program (the body of a function,
\* method, constructor, do-block, loop or if-branch) contains a statement
\* after a return or break of the same block, and the statements up to and
\* including the first return or break are kept in their original order
\* (compared, kind by kind, for the bodies of the statements of the list).
C13_NoStatementAfterReturnOrBreak ==
    pgPc \in {"optimized", "generated"} /\ pgOptimize =>
        /\ \A block \in BlocksIn(pgOptimized) :
              \A k \in 1..Len(block) : Exits(block[k]) => k = Len(block)
        /\ Len(pgOptimized) = Len(pgStatements) =>
              \A i \in 1..Len(pgStatements) :
                  /\ pgStatements[i].node \in {"WhileStatement", "DoStatement",
                                                "FunctionDeclaration"}
                  /\ pgOptimized[i].node = pgStatements[i].node
                  => LET kept == KeptKinds(UpToExit(pgStatements[i].Body.Statements))
                         body == pgOptimized[i].Body.Statements
                     IN  /\ Len(body) >= Len(kept)
                         /\ \A k \in 1..Len(kept) : body[k].node = kept[k]

\* The classes the program declares.
DeclaredClasses ==
    {pgStatements[i].Name :
        i \in {k \in 1..Len(pgStatements) : IsNode(pgStatements[k], "ClassDeclaration")}}
\* The line calls the name itself: name(...) rather than name.new(...).
CallsItself(line, name) ==
    \E k \in 1..(Len(line) - 1) :
        /\ line[k] = WordText(name)
        /\ line[k + 1] = WordText("(")
        /\ k = 1 \/ line[k - 1].chars \notin {".", ":"}

\* C16: every call expression whose callee is an identifier naming a class
\* declared in the program is emitted as ClassName.new(...), wherever the call
\* stands relative to the class declaration in the statement list.
C16_ClassCallsBecomeNew ==
    pgPc = "generated" =>
        \A name \in DeclaredClasses :
            \A i \in 1..Len(pgEmitted) : ~CallsItself(pgEmitted[i], name)

(***************************************************************************)
(* Claims about the places where the checker requires a number, about      *)
(* optional types, scopes and the names of the primitive types.            *)
(***************************************************************************)
RECURSIVE RequiredNumbers(_)
\* The subexpressions of e that the checker requires to be numbers: the
\* operands of the arithmetic operators and of unary minus, and the index of
\* an indexed array.
RequiredNumbers(e) ==
    CASE IsNode(e, "PrefixExpression") ->
            (IF e.Operator = "-" THEN {e.Right} ELSE {}) \cup RequiredNumbers(e.Right)
      [] IsNode(e, "InfixExpression") ->
            (IF e.Operator \in {"+", "-", "*", "/", "%", "^"} THEN {e.Left, e.Right} ELSE {})
               \cup RequiredNumbers(e.Left) \cup RequiredNumbers(e.Right)
      [] IsNode(e, "IndexExpression") ->
            (IF /\ IsNode(e.Left, "Identifier")
                /\ HasKey(checker.env, e.Left.Name)
                /\ IsKind(Lookup(checker.env, e.Left.Name), "array")
             THEN {e.Index} ELSE {})
               \cup RequiredNumbers(e.Left) \cup RequiredNumbers(e.Index)
      [] IsNode(e, "CallExpression") ->
            RequiredNumbers(e.Function)
               \cup UNION {RequiredNumbers(e.Arguments[i]) : i \in 1..Len(e.Arguments)}
      [] OTHER -> {}

\* The same for a statement without nested statements: for a numeric for
\* loop also its start, end and step.
RequiredNumbersOf(stmt) ==
    CASE IsNode(stmt, "VariableDeclaration") -> RequiredNumbers(stmt.Value)
      [] IsNode(stmt, "AssignmentStatement")  -> RequiredNumbers(stmt.Value)
      [] IsNode(stmt, "ExpressionStatement")  -> RequiredNumbers(stmt.Expression)
      [] IsNode(stmt, "ForStatement") ->
            {stmt.Start, stmt.End} \cup (IF stmt.Step = NilExpr THEN {} ELSE {stmt.Step})
               \cup RequiredNumbers(stmt.Start) \cup RequiredNumbers(stmt.End)
               \cup RequiredNumbers(stmt.Step)
      [] OTHER -> {}

\* The messages that say that a number was required.
NumberRequired ==
    {"Operator cannot be applied to type", "Unary operator '-' cannot be applied to type",
     "For loop start must be number, got", "For loop end must be number, got",
     "For loop step must be number, got", "Array index must be number, got"}

HasNoNestedStatements(stmt) ==
    \/ stmt.node \in {"VariableDeclaration", "AssignmentStatement", "ExpressionStatement"}
    \/ IsNode(stmt, "ForStatement") /\ stmt.Body.Statements = <<>>

\* Statement i has places that require a number, and a number literal in each.
LiteralsWhereNumbersAreRequired(i) ==
    /\ HasNoNestedStatements(statements[i])
    /\ RequiredNumbersOf(statements[i]) # {}
    /\ \A e \in RequiredNumbersOf(statements[i]) : IsNode(e, "NumberLiteral")

\* C27: an expression whose inferred type is a number-literal type is accepted
\* wherever the checker requires a number (operand of an arithmetic operator
\* or of unary minus, start, end or step of a numeric for, array index): a
\* statement with a number literal in each such place, as
\* "let x: number = 1 + 2", gets no diagnostic that a number was required.
C27_NumberLiteralsAreNumbers ==
    ckPc = "done" =>
        \A i \in 1..Len(statements) :
            LiteralsWhereNumbersAreRequired(i) =>
                ~\E k \in 1..Len(checker.errors) :
                    /\ checker.errors[k].Line = i
                    /\ checker.errors[k].Message \in NumberRequired

\* A declaration  let a: number? = v  of the run.
OptionalNumberDeclared(i) ==
    /\ IsNode(statements[i], "VariableDeclaration")
    /\ statements[i].Type = AstOptionalType(TypeName("number"))

\* C28: every type T, and every literal type whose primitive is T, is
\* assignable to optional(T), so that a variable annotated "T?" can be
\* initialised with a non-nil value of type T as well as with nil (the
\* declaration gets no diagnostic).
C28_OptionalTakesItsBaseType ==
    ckPc = "done" =>
        /\ \A t \in RunTypes :
              /\ IsAssignableTo(t, OptionalType(t))
              /\ IsLiteralType(t) => IsAssignableTo(t, OptionalType(PrimitiveOf(t)))
        /\ \A i \in 1..Len(statements) :
              /\ OptionalNumberDeclared(i)
              /\ statements[i].Value.node \in {"NumberLiteral", "NilLiteral"}
              => ~\E k \in 1..Len(checker.errors) : checker.errors[k].Line = i

RECURSIVE ConstAssigned(_, _, _, _)
\* The assignments of stmts to a name whose visible declaration is const, each
\* as the pair of the line of its top-level statement and the name.  consts
\* are the names whose visible declaration is const before stmts[i]; line is
\* 0 for the top-level statements and the line of the enclosing top-level
\* statement for the statements of a block.  A declaration replaces the
\* visible one; what a block, a function body or a loop declares ends with it.
ConstAssigned(stmts, i, consts, line) ==
    IF i > Len(stmts) THEN {}
    ELSE LET stmt == stmts[i]
             at   == IF line = 0 THEN i ELSE line
         IN  CASE IsNode(stmt, "VariableDeclaration") ->
                    ConstAssigned(stmts, i + 1,
                                  IF stmt.IsConstant THEN consts \cup {stmt.Name}
                                  ELSE consts \ {stmt.Name}, line)
               [] IsNode(stmt, "AssignmentStatement") ->
                    (IF IsNode(stmt.Name, "Identifier") /\ stmt.Name.Name \in consts
                     THEN {<<at, stmt.Name.Name>>} ELSE {})
                       \cup ConstAssigned(stmts, i + 1, consts, line)
               [] IsNode(stmt, "DoStatement") ->
                    ConstAssigned(stmt.Body.Statements, 1, consts, at)
                       \cup ConstAssigned(stmts, i + 1, consts, line)
               [] IsNode(stmt, "ForStatement") ->
                    ConstAssigned(stmt.Body.Statements, 1, consts \ {stmt.Variable}, at)
                       \cup ConstAssigned(stmts, i + 1, consts, line)
               [] IsNode(stmt, "FunctionDeclaration") ->
                    ConstAssigned(stmt.Body.Statements, 1,
                                  (consts \ {stmt.Name})
                                     \ {stmt.Parameters[k].Name : k \in 1..Len(stmt.Parameters)},
                                  at)
                       \cup ConstAssigned(stmts, i + 1, consts \ {stmt.Name}, line)
               [] OTHER -> ConstAssigned(stmts, i + 1, consts, line)

\* C29: assignment to a variable that is not a constant is never reported as
\* assignment to a constant: every "Cannot assign to const variable" error is
\* about an assignment to a name whose visible declaration is const, so a
\* mutable local that shadows a constant of an enclosing scope, or that
\* re-declares a constant's name in the same scope, is assigned without it.
C29_OnlyConstantsAreReportedConst ==
    ckPc = "done" =>
        \A k \in 1..Len(checker.errors) :
            checker.errors[k].Message = "Cannot assign to const variable" =>
                <<checker.errors[k].Line, checker.errors[k].About[1]>>
                    \in ConstAssigned(statements, 1, {}, 0)

\* The primitive type a primitive type name stands for.
PrimitiveNamed(name) ==
    CASE name = "number"  -> Number
      [] name = "string"  -> String
      [] name = "boolean" -> Boolean
      [] name = "nil"     -> Nil
      [] name = "void"    -> Void
      [] name = "any"     -> AnyType

RECURSIVE DeclarationsIn(_)
\* The variable declarations of a statement and of the blocks in it.
DeclarationsIn(stmt) ==
    CASE IsNode(stmt, "VariableDeclaration") -> {stmt}
      [] stmt.node \in {"FunctionDeclaration", "DoStatement", "ForStatement"} ->
            UNION {DeclarationsIn(stmt.Body.Statements[k]) : k \in 1..Len(stmt.Body.Statements)}
      [] OTHER -> {}

\* let y: number = 1  or  let y: string = "a": the value is a literal of the
\* primitive type that the annotation names.
LiteralOfItsAnnotation(d) ==
    \/ d.Type = TypeName("number") /\ IsNode(d.Value, "NumberLiteral")
    \/ d.Type = TypeName("string") /\ IsNode(d.Value, "StringLiteral")

\* C21: in a type position a primitive type name (number, string, boolean,
\* nil, void, any) always resolves to the primitive type, even after the
\* environment has received a same-named binding (a variable, a constant, a
\* parameter, a user type): the checker resolves each of the names to its
\* primitive type in every state of a run, and a declaration annotated with
\* a primitive name accepts a literal of that primitive type.
C21_PrimitiveNamesResolveToPrimitives ==
    /\ \A name \in {"number", "string", "boolean", "nil", "void", "any"} :
          resolveTypeExpression(checker, TypeName(name)).typ = PrimitiveNamed(name)
    /\ ckPc = "done" =>
          \A i \in 1..Len(statements) :
             \A d \in DeclarationsIn(statements[i]) :
                LiteralOfItsAnnotation(d) =>
                   ~\E k \in 1..Len(checker.errors) :
                       checker.errors[k] =
                           TypeError("Cannot assign type to variable of type", <<d.Name>>, i)

\* public is wider than protected, protected wider than private.
VisibilityRank(v) == CASE v = "private" -> 1 [] v = "protected" -> 2 [] v = "public" -> 3

\* Statement i declares a class that extends the class declared by statement j.
ExtendsClass(i, j) ==
    /\ IsNode(statements[i], "ClassDeclaration")
    /\ IsNode(statements[j], "ClassDeclaration")
    /\ statements[i].Extends # NilExpr
    /\ statements[i].Extends.Name = statements[j].Name

\* The diagnostics of the run that say that the override of the method
\* reduces the visibility.
VisibilityReduced(name) ==
    {k \in 1..Len(checker.errors) :
        /\ checker.errors[k].Message = "Method override cannot reduce visibility from to"
        /\ checker.errors[k].About[1] = name}

\* C22: when a subclass overrides a parent method with a narrower visibility
\* (a public method overridden as private), the checker reports exactly one
\* diagnostic stating that visibility may not be reduced; an override that
\* keeps or widens the visibility produces none.
C22_NarrowedOverrideIsReportedOnce ==
    ckPc = "done" =>
        \A i, j \in 1..Len(statements) :
            ExtendsClass(i, j) =>
                \A m \in 1..Len(statements[i].Methods), n \in 1..Len(statements[j].Methods) :
                    LET override == statements[i].Methods[m]
                        parent   == statements[j].Methods[n]
                    IN  override.Name = parent.Name =>
                            Cardinality(VisibilityReduced(override.Name)) =
                                IF VisibilityRank(override.Visibility)
                                      < VisibilityRank(parent.Visibility)
                                THEN 1 ELSE 0

(***************************************************************************)
(* Claims about the lexer.                                                 *)
(***************************************************************************)
\* The line and the column of the byte at position p (from 0) of the input:
\* one plus the newlines before it, and its offset from the start of its line.
LineAt(p) == 1 + Cardinality({q \in 1..p : lexer.input[q] = CharNewline})
ColumnAt(p) ==
    LET newlines == {q \in 1..p : lexer.input[q] = CharNewline}
        last     == IF newlines = {} THEN 0
                    ELSE CHOOSE q \in newlines : \A r \in newlines : r <= q
    IN  p + 1 - last

\* C23: for every token returned by NextToken, line equals one plus the number
\* of newline bytes that precede the token's first byte in the input (those
\* inside earlier string literals and comments included), and column is the
\* 1-based offset of that byte within its line.
C23_TokenPositions ==
    \A k \in 1..Len(lxTokens) :
        lxStarts[k] <= Len(lexer.input) =>
            /\ lxTokens[k].Line = LineAt(lxStarts[k])
            /\ lxTokens[k].Column = ColumnAt(lxStarts[k])

\* C24: for every input, repeated calls to NextToken never abort and return
\* an EOF token after at most one call per input byte plus one (also for
\* unterminated strings, unterminated block comments and unknown bytes), and
\* once EOF has been returned every later call returns EOF.
C24_LexerTerminates ==
    /\ LexerNextToken(lexer).ok
    /\ Len(lxTokens) >= Len(lexer.input) + 1 =>
          \E k \in 1..(Len(lexer.input) + 1) : lxTokens[k].Type = "EOF"
    /\ \A j, k \in 1..Len(lxTokens) :
          j < k /\ lxTokens[j].Type = "EOF" => lxTokens[k].Type = "EOF"

RECURSIVE ClosingQuote(_)
\* The index (from 1) of the quote that closes a string whose text starts at
\* index i, a backslash taking the next byte with it; past the input if none.
ClosingQuote(i) ==
    IF i > Len(lexer.input) THEN Len(lexer.input) + 1
    ELSE IF lexer.input[i] = CharBackslash THEN ClosingQuote(i + 2)
    ELSE IF lexer.input[i] = CharQuote THEN i
    ELSE ClosingQuote(i + 1)

\* The position after the last byte of token k: a string ends with its
\* closing quote (or with the input), an EOF token for a NUL byte of the
\* input is that byte, any other token is its literal.
TokenEnd(k) ==
    CASE lxTokens[k].Type = "STRING" ->
            IF ClosingQuote(lxStarts[k] + 2) > Len(lexer.input) THEN Len(lexer.input)
            ELSE ClosingQuote(lxStarts[k] + 2)
      [] lxTokens[k].Type = "EOF" ->
            IF lxStarts[k] < Len(lexer.input) THEN lxStarts[k] + 1 ELSE lxStarts[k]
      [] OTHER -> lxStarts[k] + Len(lxTokens[k].Literal)

RECURSIVE LineEnd(_, _)
RECURSIVE BlockEnd(_, _)
RECURSIVE Skippable(_, _)
\* The index of the newline that ends a one-line comment, within i..to.
LineEnd(i, to) ==
    IF i > to THEN to + 1
    ELSE IF lexer.input[i] = CharNewline THEN i ELSE LineEnd(i + 1, to)
\* The index after the "]]" that closes a block comment, within i..to.
BlockEnd(i, to) ==
    IF i + 1 > to THEN to + 1
    ELSE IF lexer.input[i] = CharRBracket /\ lexer.input[i + 1] = CharRBracket THEN i + 2
    ELSE BlockEnd(i + 1, to)
\* The bytes at the indexes i..to are whitespace and comments only.
Skippable(i, to) ==
    IF i > to THEN TRUE
    ELSE IF lexer.input[i] \in {CharSpace, CharTab, CharReturn, CharNewline}
    THEN Skippable(i + 1, to)
    ELSE IF lexer.input[i] = CharMinus /\ i + 1 <= to /\ lexer.input[i + 1] = CharMinus
    THEN IF /\ i + 3 <= to
            /\ lexer.input[i + 2] = CharLBracket
            /\ lexer.input[i + 3] = CharLBracket
         THEN Skippable(BlockEnd(i + 4, to), to)
         ELSE Skippable(LineEnd(i + 2, to), to)
    ELSE FALSE

\* The lexer has returned the EOF token of the end of the input.
ReachedEnd ==
    \E k \in 1..Len(lxTokens) :
        lxTokens[k].Type = "EOF" /\ lxStarts[k] >= Len(lexer.input)

\* C30: tokenization loses no input: every input byte that is neither
\* whitespace nor part of a comment belongs to exactly one returned token (as
\* the closing parenthesis in f(1), the byte after a number literal): the
\* tokens do not overlap, and the bytes before the first token and between
\* one token and the next are whitespace and comments.
C30_NoInputLost ==
    ReachedEnd =>
        \A k \in 1..Len(lxTokens) :
            lxStarts[k] <= Len(lexer.input) =>
                LET before == IF k = 1 THEN 0 ELSE TokenEnd(k - 1)
                IN  /\ before <= lxStarts[k]
                    /\ Skippable(before + 1, lxStarts[k])

(***************************************************************************)
(* Claims about the parser's precedences.                                  *)
(***************************************************************************)
\* The stated order of the binary operators, from low to high: or; and;
\* equality; relational; concatenation; additive; multiplicative.
StatedLevel(op) ==
    CASE op = "or"  -> 1
      [] op = "and" -> 2
      [] op \in {"==", "!=", "~="} -> 3
      [] op \in {"<", "<=", ">", ">="} -> 4
      [] op = ".." -> 5
      [] op \in {"+", "-"} -> 6
      [] op \in {"*", "/", "%"} -> 7

\* The source is  x o1 y o2 z  for operands x, y, z and binary operators o1, o2.
TwoOperators ==
    /\ Len(rtSource) = 5
    /\ \A i \in {1, 3, 5} : rtSource[i] \in SrcAtoms
    /\ \A i \in {2, 4} : rtSource[i].kind = "word" /\ rtSource[i].chars \in SrcOperators

\* The expression is  (x o1 y) o2 z,  respectively  x o1 (y o2 z).
GroupsLeft(e, o1, o2) ==
    /\ IsNode(e, "InfixExpression") /\ e.Operator = o2
    /\ IsNode(e.Left, "InfixExpression") /\ e.Left.Operator = o1
    /\ ~IsNode(e.Right, "InfixExpression")
GroupsRight(e, o1, o2) ==
    /\ IsNode(e, "InfixExpression") /\ e.Operator = o1
    /\ IsNode(e.Right, "InfixExpression") /\ e.Right.Operator = o2
    /\ ~IsNode(e.Left, "InfixExpression")

C25_ParseNeverAborts ==
    psPc \in {"ready", "returned"}

(***************************************************************************)
InitVLQ == VlqInit /\ SmIdle /\ OptIdle /\ RtIdle /\ CkIdle /\ PgIdle /\ LxIdle /\ PsIdle
NextVLQ == VlqEncode \/ VlqDecode
SpecVLQ == InitVLQ /\ [][NextVLQ]_vars

InitSourceMap == SmInit /\ VlqIdle /\ OptIdle /\ RtIdle /\ CkIdle /\ PgIdle /\ LxIdle /\ PsIdle
NextSourceMap == SmAddMapping \/ Build
SpecSourceMap == InitSourceMap /\ [][NextSourceMap]_vars

InitOptimizer == OptInit /\ VlqIdle /\ SmIdle /\ RtIdle /\ CkIdle /\ PgIdle /\ LxIdle /\ PsIdle
NextOptimizer == OptimizeStatements \/ OptGenerate
SpecOptimizer == InitOptimizer /\ [][NextOptimizer]_vars

InitCompile == RtInit /\ VlqIdle /\ SmIdle /\ OptIdle /\ CkIdle /\ PgIdle /\ LxIdle /\ PsIdle
NextCompile == Parse \/ Generate \/ GenerateAgain \/ Reparse
SpecCompile == InitCompile /\ [][NextCompile]_vars

InitChecker == CkInit /\ VlqIdle /\ SmIdle /\ OptIdle /\ RtIdle /\ PgIdle /\ LxIdle /\ PsIdle
NextChecker == RegisterTypeDefinition \/ CheckStatement
SpecChecker == InitChecker /\ [][NextChecker]_vars

InitProgram == PgInit /\ VlqIdle /\ SmIdle /\ OptIdle /\ RtIdle /\ CkIdle /\ LxIdle /\ PsIdle
NextProgram == PgOptimize \/ PgGenerate
SpecProgram == InitProgram /\ [][NextProgram]_vars

InitLexer == LxInit /\ VlqIdle /\ SmIdle /\ OptIdle /\ RtIdle /\ CkIdle /\ PgIdle /\ PsIdle
NextLexer == LxNextToken
SpecLexer == InitLexer /\ [][NextLexer]_vars

InitParser == PsInit /\ VlqIdle /\ SmIdle /\ OptIdle /\ RtIdle /\ CkIdle /\ PgIdle /\ LxIdle
NextParser == PsParse
SpecParser == InitParser /\ [][NextParser]_vars

====
